---------------------------- MODULE Spec2Model ----------------------------
(***************************************************************************)
(* A model of musictools.py: notes with letter / pitch-class spelling, the *)
(* enharmonic rewriter, intervals, mode spelling and the process-wide      *)
(* tuning reference.                                                       *)
(*                                                                         *)
(* Python values are tagged records ([t |-> "int", i |-> 3], ...), a       *)
(* raised exception is the value [t |-> "raise", exc |-> ...], strings are *)
(* sequences of one-character strings, and Python's 0-based tuples are     *)
(* 1-based sequences read at index + 1.                                    *)
(***************************************************************************)
EXTENDS Integers, Sequences, FiniteSets, TLC

VARIABLES A4, note, ivl, mode, chord, res

vars == <<A4, note, ivl, mode, chord, res>>

(***************************************************************************)
(* Bounds of the model                                                     *)
(***************************************************************************)
\* longest run of sharps or of flats in a well-formed name under check
MaxAcc == 13
\* longest raw (unnormalised) constructor argument drawn character by character
MaxRaw == 3
\* largest octave displacement of an interval under check
MaxDisplace == 2
\* largest numeral suffix of an augmented / diminished quality under check
MaxTimes == 3

(***************************************************************************)
(* Python values                                                           *)
(***************************************************************************)
PyNone == [t |-> "None"]
PyInt(n) == [t |-> "int", i |-> n]
PyBool(b) == [t |-> "bool", b |-> b]
PyStr(s) == [t |-> "str", s |-> s]
\* a float: c is "fin" (f its value, integral here), "nan", "inf" or "-inf"
PyFloat(c, n) == [t |-> "float", c |-> c, f |-> n]
Raise(e) == [t |-> "raise", exc |-> e]

IsRaise(x) == x.t = "raise"

\* a local variable: v is evaluated once and F applied to its value
Bind(v, F(_)) == CHOOSE out \in {F(x) : x \in {v}} : TRUE

\* truth value of a Python value in an `if`
Truthy(x) ==
    CASE x.t = "None" -> FALSE
      [] x.t = "int" -> x.i # 0
      [] x.t = "bool" -> x.b
      [] x.t = "str" -> Len(x.s) > 0
      [] x.t = "float" -> ~(x.c = "fin" /\ x.f = 0)
      [] OTHER -> TRUE

\* x in range(11): an int 0..10, or a bool (True == 1, False == 0)
InRange11(x) == (x.t = "int" /\ x.i \in 0..10) \/ x.t = "bool"

(***************************************************************************)
(* Strings: str.strip, str.capitalize, the `in` test, repetition           *)
(***************************************************************************)
LowerChars ==
    <<"a", "b", "c", "d", "e", "f", "g", "h", "i", "j", "k", "l",
      "m", "n", "o", "p", "q", "r", "s", "t", "u", "v", "w", "x", "y", "z">>
UpperChars ==
    <<"A", "B", "C", "D", "E", "F", "G", "H", "I", "J", "K", "L",
      "M", "N", "O", "P", "Q", "R", "S", "T", "U", "V", "W", "X", "Y", "Z">>

Upper(c) ==
    IF \E i \in 1..Len(LowerChars) : LowerChars[i] = c
    THEN UpperChars[CHOOSE i \in 1..Len(LowerChars) : LowerChars[i] = c]
    ELSE c

Lower(c) ==
    IF \E i \in 1..Len(UpperChars) : UpperChars[i] = c
    THEN LowerChars[CHOOSE i \in 1..Len(UpperChars) : UpperChars[i] = c]
    ELSE c

RECURSIVE LStrip(_)
LStrip(s) == IF s # <<>> /\ Head(s) = " " THEN LStrip(Tail(s)) ELSE s

RECURSIVE RStrip(_)
RStrip(s) ==
    IF s # <<>> /\ s[Len(s)] = " " THEN RStrip(SubSeq(s, 1, Len(s) - 1)) ELSE s

Strip(s) == RStrip(LStrip(s))

Capitalize(s) == [i \in 1..Len(s) |-> IF i = 1 THEN Upper(s[i]) ELSE Lower(s[i])]

LowerStr(s) == [i \in 1..Len(s) |-> Lower(s[i])]

Contains(s, c) == \E i \in 1..Len(s) : s[i] = c

Repeat(c, n) == [i \in 1..n |-> c]

(***************************************************************************)
(* class Note                                                              *)
(***************************************************************************)
\* Note.__PITCH_VALUES
PITCH_VALUES ==
    << <<"C", 0>>, <<"D", 2>>, <<"E", 4>>, <<"F", 5>>, <<"G", 7>>, <<"A", 9>>,
       <<"B", 11>> >>

\* Note.__NOTE_REGEX = r'[A-G](#|b)*$' applied with re.match
MatchNoteRegex(s) ==
    /\ Len(s) >= 1
    /\ s[1] \in {"A", "B", "C", "D", "E", "F", "G"}
    /\ \A i \in 2..Len(s) : s[i] \in {"#", "b"}

\* Note(name, octave, rhythm, dots, triplet): the new object or the exception
NoteInit(name, octave, rhythm, dots, triplet) ==
    IF name.t # "str" THEN Raise("ValueError")
    ELSE Bind(Capitalize(Strip(name.s)), LAMBDA nm :
      IF ~MatchNoteRegex(nm) /\ nm # <<"R">> THEN Raise("ValueError")
      ELSE IF octave.t # "None" /\ octave.t # "int" THEN Raise("ValueError")
      ELSE IF ~InRange11(rhythm) THEN Raise("ValueError")
      ELSE IF dots.t # "int" THEN Raise("ValueError")
      ELSE IF dots.i < 0 THEN Raise("ValueError")
      ELSE IF triplet.t # "bool" THEN Raise("ValueError")
      ELSE [t |-> "Note", name |-> nm, octave |-> octave, rhythm |-> rhythm,
            dots |-> dots.i, triplet |-> triplet.b, class_name |-> "Note",
            shadowed |-> {}])

\* Note(name) with every optional argument at its default
NewNote(nm) == NoteInit(PyStr(nm), PyNone, PyInt(0), PyInt(0), PyBool(FALSE))

\* Note(name, octave=o)
NewNoteOct(nm, o) == NoteInit(PyStr(nm), PyInt(o), PyInt(0), PyInt(0), PyBool(FALSE))

is_rest(self) == self.name = <<"R">>

note_name(self) == self.name

\* Note.octave (getter)
octave(self) == IF is_rest(self) THEN PyNone ELSE self.octave

\* Note.letter: index of the name's first character in __PITCH_VALUES, or None
letter(self) ==
    IF \E i \in 1..7 : PITCH_VALUES[i][1] = self.name[1]
    THEN PyInt((CHOOSE i \in 1..7 : PITCH_VALUES[i][1] = self.name[1]) - 1)
    ELSE PyNone

sharps(self) ==
    IF is_rest(self) THEN PyNone
    ELSE IF Len(self.name) > 0 /\ Contains(self.name, "#")
         THEN PyInt(Len(self.name) - 1)
         ELSE PyInt(0)

flats(self) ==
    IF is_rest(self) THEN PyNone
    ELSE IF Len(self.name) > 0 /\ Contains(self.name, "b")
         THEN PyInt(Len(self.name) - 1)
         ELSE PyInt(0)

\* Note.pitch: the letter's natural pitch plus the sharps or minus the flats,
\* folded back by 12 at most once
pitch(self) ==
    IF is_rest(self) THEN PyNone
    ELSE LET nat == PITCH_VALUES[letter(self).i + 1][2] IN
      IF Truthy(sharps(self))
      THEN LET p == nat + sharps(self).i IN PyInt(IF p > 11 THEN p - 12 ELSE p)
      ELSE IF Truthy(flats(self))
      THEN LET p == nat - flats(self).i IN PyInt(IF p < 0 THEN p + 12 ELSE p)
      ELSE PyInt(nat)

\* Note.pitch_offset
pitch_offset(self) ==
    IF is_rest(self) THEN PyNone
    ELSE IF sharps(self).i > 0 THEN PyInt(sharps(self).i)
    ELSE IF flats(self).i > 0 THEN PyInt(0 - flats(self).i)
    ELSE PyInt(0)


\* variant of hard_pitch: a missing octave counts as octave 0
hard_pitch_octave0(self) ==
    IF is_rest(self) THEN PyNone
    ELSE PyInt(pitch(self).i + (IF octave(self).t = "None" THEN 0 ELSE octave(self).i) * 12)

\* Note.hard_pitch
hard_pitch(self) ==
    IF octave(self).t = "None" THEN PyNone
    ELSE PyInt(pitch(self).i + octave(self).i * 12)

\* hard pitch of the note the tuning reference names (A4 = 9 + 4 * 12)
REF_HARD_PITCH == 57

\* get_A4()
get_A4 == A4

\* set_A4(Hz): the new value of the global, or the exception
set_A4(Hz) ==
    IF Hz.t # "int" /\ Hz.t # "float" THEN Raise("ValueError")
    ELSE IF (Hz.t = "int" /\ Hz.i <= 0)
            \/ (Hz.t = "float" /\ Hz.c = "fin" /\ Hz.f <= 0)
            \/ (Hz.t = "float" /\ Hz.c = "-inf")
         THEN Raise("ValueError")
         ELSE Hz

\* variant of frequency: the reference hard pitch of musictools_old.py, 56
frequency_ref56(self) ==
    IF octave(self).t = "None" THEN PyNone
    ELSE [t |-> "freq", ref |-> get_A4, semis |-> hard_pitch(self).i - 56]

\* Note.frequency: [ref, semis] stands for the float ref * 2 ^ (semis / 12)
frequency(self) ==
    IF octave(self).t = "None" THEN PyNone
    ELSE [t |-> "freq", ref |-> get_A4, semis |-> hard_pitch(self).i - REF_HARD_PITCH]

RECURSIVE Pow2(_)
Pow2(k) == IF k <= 0 THEN 1 ELSE 2 * Pow2(k - 1)

\* the number a [ref, semis] result is when ref is an int and semis a whole
\* number of octaves upward: power(2, k) is exact there
frequency_value(fr) == fr.ref.i * Pow2(fr.semis \div 12)

\* the property setters: the object after the assignment, or the exception
set_octave(self, value) ==
    IF is_rest(self) THEN Raise("ValueError")
    ELSE IF value.t # "int" /\ value.t # "None" THEN Raise("ValueError")
    ELSE [self EXCEPT !.octave = value]

set_dots(self, value) ==
    IF value.t # "int" THEN Raise("ValueError")
    ELSE IF value.i < 0 THEN Raise("ValueError")
    ELSE [self EXCEPT !.dots = value.i]

set_triplet(self, value) ==
    IF value.t # "bool" THEN Raise("ValueError")
    ELSE [self EXCEPT !.triplet = value.b]

set_rhythm(self, value) ==
    IF ~InRange11(value) /\ value.t # "None" THEN Raise("ValueError")
    ELSE [self EXCEPT !.rhythm = value]

\* variant of from_values: an offset below -6 is not folded up by 12
from_values_unwrapped(l, p) ==
    IF l \notin 0..6 THEN Raise("ValueError")
    ELSE IF p \notin 0..11 THEN Raise("ValueError")
    ELSE LET letter_str == PITCH_VALUES[l + 1][1]
             raw_offset == p - PITCH_VALUES[l + 1][2]
         IN Bind(IF raw_offset > 5 THEN raw_offset - 12 ELSE raw_offset,
                 LAMBDA off :
                   NewNote(IF off = 0 THEN <<letter_str>>
                           ELSE IF off < 0 THEN <<letter_str>> \o Repeat("b", 0 - off)
                           ELSE <<letter_str>> \o Repeat("#", off)))

\* Note.from_values(letter, pitch)
from_values(l, p) ==
    IF l \notin 0..6 THEN Raise("ValueError")
    ELSE IF p \notin 0..11 THEN Raise("ValueError")
    ELSE LET letter_str == PITCH_VALUES[l + 1][1]
             expected_pitch == PITCH_VALUES[l + 1][2]
             raw_offset == p - expected_pitch
         IN Bind(IF raw_offset > 5 THEN raw_offset - 12
                 ELSE IF raw_offset < -6 THEN raw_offset + 12
                 ELSE raw_offset,
                 LAMBDA off :
                   NewNote(IF off = 0 THEN <<letter_str>>
                           ELSE IF off < 0 THEN <<letter_str>> \o Repeat("b", 0 - off)
                           ELSE <<letter_str>> \o Repeat("#", off)))

\* Note.__GROSS_ROOTS
GROSS_ROOTS_KEYS == {<<"B">>, <<"C">>, <<"E">>, <<"F">>}

GROSS_ROOTS(nm) ==
    CASE nm = <<"B">> -> <<"C", "b">>
      [] nm = <<"C">> -> <<"B", "#">>
      [] nm = <<"E">> -> <<"F", "b">>
      [] nm = <<"F">> -> <<"E", "#">>

\* variant of NON_NATURAL: pitch 0 counted among the black keys
NON_NATURAL_with_0 == {0, 1, 3, 6, 8, 10}

\* Note.__NON_NATURAL
NON_NATURAL == {1, 3, 6, 8, 10}

\* most letter shifts the rewriting loop is followed for
LoopCap == 9

\* whether the name property (note name, octave digits, rhythm words) holds the
\* character c, "#" or "b": the octave digits hold neither, and the only rhythm
\* word holding one is "double whole", of rhythm 0, which the name leaves out
name_has(self, c) == Contains(note_name(self), c)

\* the letter one step up (sharp spelling) or down (flat spelling), wrapped
shift_letter(self, l) ==
    IF Contains(note_name(self), "#")
    THEN (IF l + 1 > 6 THEN l + 1 - 7 ELSE l + 1)
    ELSE (IF l - 1 < 0 THEN l - 1 + 7 ELSE l - 1)

\* the while loop of enharmonic: [note, letter, fresh, steps] when it ends,
\* fresh telling whether note is a new object rather than the receiver
RECURSIVE enharmonic_loop(_, _, _, _, _, _)
enharmonic_loop(self, new_note, new_letter, limit, fresh, steps) ==
    IF IsRaise(new_note) \/ ~(Len(note_name(new_note)) > limit)
    THEN [note |-> new_note, letter |-> new_letter, fresh |-> fresh, steps |-> steps]
    ELSE IF steps >= LoopCap
    THEN [note |-> [t |-> "diverges"], letter |-> new_letter, fresh |-> fresh,
          steps |-> steps]
    ELSE LET nl == shift_letter(self, new_letter) IN
         enharmonic_loop(self, from_values(nl, pitch(self).i), nl, limit, TRUE,
                         steps + 1)

\* the tail of enharmonic: octave, rhythm, dots and triplet copied onto new_note
copy_onto(new_note, self) ==
    Bind(set_octave(new_note, octave(self)), LAMBDA n1 :
      IF IsRaise(n1) THEN n1
      ELSE Bind(IF Truthy(self.rhythm) THEN set_rhythm(n1, self.rhythm) ELSE n1,
                LAMBDA n2 :
        IF IsRaise(n2) THEN n2
        ELSE Bind(set_dots(n2, PyInt(self.dots)), LAMBDA n3 :
          IF IsRaise(n3) THEN n3
          ELSE set_triplet(n3, PyBool(self.triplet)))))

\* variant of enharmonic_pick: after the loop the note is kept as the loop
\* left it, whatever prefer asks for
enharmonic_pick_loop_only(self, prefer, gross) ==
    LET ret_self == [note |-> self, fresh |-> FALSE, done |-> TRUE]
        fail(e) == [note |-> Raise(e), fresh |-> TRUE, done |-> TRUE]
        make(n) == Bind(n, LAMBDA nn : [note |-> nn, fresh |-> TRUE,
                                        done |-> IsRaise(nn)])
        nm == note_name(self)
    IN
    Bind(pitch(self), LAMBDA p :
    IF p.t = "None" THEN fail("Exception")
    ELSE IF Truthy(prefer) /\ prefer \notin {PyStr(<<"#">>), PyStr(<<"b">>)}
    THEN fail("ValueError")
    ELSE IF gross.t # "bool" THEN fail("ValueError")
    ELSE IF gross.b /\ nm \in GROSS_ROOTS_KEYS
    THEN LET new_name == GROSS_ROOTS(nm) IN
         IF Contains(new_name, "#") /\ prefer = PyStr(<<"b">>) THEN ret_self
         ELSE IF Contains(new_name, "b") /\ prefer = PyStr(<<"#">>) THEN ret_self
         ELSE make(NewNote(new_name))
    ELSE IF Len(nm) = 1 THEN ret_self
    ELSE IF Len(nm) = 2
    THEN IF Contains(nm, "#") /\ prefer = PyStr(<<"#">>) THEN ret_self
         ELSE IF ~Contains(nm, "#") /\ prefer = PyStr(<<"b">>) THEN ret_self
         ELSE make(from_values(shift_letter(self, letter(self).i), p.i))
    ELSE Bind(enharmonic_loop(self, self, letter(self).i,
                              IF p.i \in NON_NATURAL THEN 2 ELSE 1, FALSE, 0),
              LAMBDA lp :
         IF lp.note.t # "Note" THEN [note |-> lp.note, fresh |-> TRUE, done |-> TRUE]
         ELSE [note |-> lp.note, fresh |-> lp.fresh, done |-> FALSE]))

\* the note enharmonic computes before the copy: [note, fresh, done], done
\* telling that the method returns note at once
enharmonic_pick(self, prefer, gross) ==
    LET ret_self == [note |-> self, fresh |-> FALSE, done |-> TRUE]
        fail(e) == [note |-> Raise(e), fresh |-> TRUE, done |-> TRUE]
        make(n) == Bind(n, LAMBDA nn : [note |-> nn, fresh |-> TRUE,
                                        done |-> IsRaise(nn)])
        nm == note_name(self)
    IN
    Bind(pitch(self), LAMBDA p :
    IF p.t = "None" THEN fail("Exception")
    ELSE IF Truthy(prefer) /\ prefer \notin {PyStr(<<"#">>), PyStr(<<"b">>)}
    THEN fail("ValueError")
    ELSE IF gross.t # "bool" THEN fail("ValueError")
    ELSE IF gross.b /\ nm \in GROSS_ROOTS_KEYS
    THEN LET new_name == GROSS_ROOTS(nm) IN
         IF Contains(new_name, "#") /\ prefer = PyStr(<<"b">>) THEN ret_self
         ELSE IF Contains(new_name, "b") /\ prefer = PyStr(<<"#">>) THEN ret_self
         ELSE make(NewNote(new_name))
    ELSE IF Len(nm) = 1 THEN ret_self
    ELSE IF Len(nm) = 2
    THEN IF Contains(nm, "#") /\ prefer = PyStr(<<"#">>) THEN ret_self
         ELSE IF ~Contains(nm, "#") /\ prefer = PyStr(<<"b">>) THEN ret_self
         ELSE make(from_values(shift_letter(self, letter(self).i), p.i))
    ELSE Bind(enharmonic_loop(self, self, letter(self).i,
                              IF p.i \in NON_NATURAL THEN 2 ELSE 1, FALSE, 0),
              LAMBDA lp :
         IF lp.note.t # "Note" THEN [note |-> lp.note, fresh |-> TRUE, done |-> TRUE]
         ELSE IF name_has(lp.note, "#") /\ prefer = PyStr(<<"b">>)
         THEN make(from_values(lp.letter + 1, p.i))
         ELSE IF name_has(lp.note, "b") /\ prefer = PyStr(<<"#">>)
         THEN make(from_values(lp.letter - 1, p.i))
         ELSE [note |-> lp.note, fresh |-> lp.fresh, done |-> FALSE]))

\* Note.enharmonic(prefer, gross): [ret, same, recv], the value returned (or the
\* exception), whether it is the receiver itself, and the receiver afterwards
enharmonic_call(self, prefer, gross) ==
    Bind(enharmonic_pick(self, prefer, gross), LAMBDA pk :
      IF pk.done THEN [ret |-> pk.note, same |-> ~pk.fresh, recv |-> self]
      ELSE Bind(copy_onto(pk.note, self), LAMBDA cp :
             [ret |-> cp, same |-> ~pk.fresh,
              recv |-> IF pk.fresh \/ IsRaise(cp) THEN self ELSE cp]))

enharmonic(self, prefer, gross) == enharmonic_call(self, prefer, gross).ret


(***************************************************************************)
(* class Interval                                                          *)
(***************************************************************************)
UNI == <<"u", "n", "i">>
SECOND == <<"2", "n", "d">>
THIRD == <<"3", "r", "d">>
FOURTH == <<"4", "t", "h">>
FIFTH == <<"5", "t", "h">>
SIXTH == <<"6", "t", "h">>
SEVENTH == <<"7", "t", "h">>
MAJ == <<"m", "a", "j">>
MIN == <<"m", "i", "n">>
PER == <<"p", "e", "r">>
AUG == <<"a", "u", "g">>
DIM == <<"d", "i", "m">>

\* Interval.BASES
BASES == <<UNI, SECOND, THIRD, FOURTH, FIFTH, SIXTH, SEVENTH>>

BaseSet == {BASES[i] : i \in 1..7}

\* Interval.__BASE_INTERVALS
BASE_INTERVALS(b) ==
    CASE b = UNI -> <<0>>
      [] b = SECOND -> <<1, 2>>
      [] b = THIRD -> <<3, 4>>
      [] b = FOURTH -> <<5>>
      [] b = FIFTH -> <<7>>
      [] b = SIXTH -> <<8, 9>>
      [] b = SEVENTH -> <<10, 11>>

\* Interval.__M_QUAL
M_QUAL == {SECOND, THIRD, SIXTH, SEVENTH}

Digits == <<"0", "1", "2", "3", "4", "5", "6", "7", "8", "9">>

IsDigit(c) == \E i \in 1..10 : Digits[i] = c

DigitVal(c) == (CHOOSE i \in 1..10 : Digits[i] = c) - 1

\* int(s) of a non-empty string of digits
RECURSIVE StrToInt(_)
StrToInt(s) ==
    IF Len(s) = 0 THEN 0
    ELSE 10 * StrToInt(SubSeq(s, 1, Len(s) - 1)) + DigitVal(s[Len(s)])

\* Interval.__QUALITY_REGEX = r'(maj|min|per)$|(aug|dim)[\d]*$' with re.match
MatchQualityRegex(q) ==
    \/ q \in {MAJ, MIN, PER}
    \/ /\ Len(q) >= 3
       /\ SubSeq(q, 1, 3) \in {AUG, DIM}
       /\ \A i \in 4..Len(q) : IsDigit(q[i])

\* Interval(quality, base, displace): the new object or the exception
IntervalInit(quality, base, displace) ==
    IF base.t # "str" THEN Raise("ValueError")
    ELSE Bind(LowerStr(Strip(base.s)), LAMBDA b :
      IF b \notin BaseSet THEN Raise("ValueError")
      ELSE IF quality.t # "str" THEN Raise("ValueError")
      ELSE Bind(LowerStr(Strip(quality.s)), LAMBDA q :
        IF ~MatchQualityRegex(q) THEN Raise("ValueError")
        ELSE IF b \in M_QUAL /\ q = PER THEN Raise("ValueError")
        ELSE IF ~(b \in M_QUAL /\ q = PER) /\ b \notin M_QUAL /\ q[1] = "m"
        THEN Raise("ValueError")
        ELSE IF displace.t # "int" THEN Raise("ValueError")
        ELSE IF displace.i < 0 THEN Raise("ValueError")
        ELSE [t |-> "Interval", quality |-> q, base |-> b, displace |-> displace.i,
              class_name |-> "Interval", shadowed |-> {}]))

\* the numeral of an augmented / diminished quality: int(quality[3:]) unless
\* that text is "0" or empty, which count as 1
times(q) ==
    IF Len(q) > 3
    THEN (IF SubSeq(q, 4, Len(q)) # <<"0">> THEN StrToInt(SubSeq(q, 4, Len(q))) ELSE 1)
    ELSE 1

\* variant of difference: a diminished interval is measured from the last
\* value of the base's table
difference_dim_from_last(self) ==
    LET q == self.quality
        tup == BASE_INTERVALS(self.base)
        oct == 12 * self.displace
    IN
    IF q = PER \/ q = MIN THEN PyInt(tup[1] + oct)
    ELSE IF q = MAJ
    THEN (IF Len(tup) < 2 THEN Raise("IndexError") ELSE PyInt(tup[2] + oct))
    ELSE IF SubSeq(q, 1, 3) = AUG
    THEN (IF self.base \in M_QUAL
          THEN PyInt(tup[2] + times(q) + oct)
          ELSE PyInt(tup[1] + times(q) + oct))
    ELSE IF SubSeq(q, 1, 3) = DIM
    THEN PyInt(tup[Len(tup)] - times(q) + oct)
    ELSE PyNone

\* Interval.difference
difference(self) ==
    LET q == self.quality
        tup == BASE_INTERVALS(self.base)
        oct == 12 * self.displace
    IN
    IF q = PER \/ q = MIN THEN PyInt(tup[1] + oct)
    ELSE IF q = MAJ
    THEN (IF Len(tup) < 2 THEN Raise("IndexError") ELSE PyInt(tup[2] + oct))
    ELSE IF SubSeq(q, 1, 3) = AUG
    THEN (IF self.base \in M_QUAL
          THEN PyInt(tup[2] + times(q) + oct)
          ELSE PyInt(tup[1] + times(q) + oct))
    ELSE IF SubSeq(q, 1, 3) = DIM
    THEN PyInt(tup[1] - times(q) + oct)
    ELSE PyNone

\* Interval.letter_difference
letter_difference(self) == (CHOOSE i \in 1..7 : BASES[i] = self.base) - 1


\* Interval.__SIMPLE_INTVLS
SIMPLE_INTVLS ==
    <<<<PER, UNI>>, <<MIN, SECOND>>, <<MAJ, SECOND>>, <<MIN, THIRD>>, <<MAJ, THIRD>>,
      <<PER, FOURTH>>, <<AUG, FOURTH>>, <<PER, FIFTH>>, <<MIN, SIXTH>>,
      <<MAJ, SIXTH>>, <<MIN, SEVENTH>>, <<MAJ, SEVENTH>>>>

\* str(n) of an integer 0..99
IntToStr(n) ==
    IF n < 10 THEN <<Digits[n + 1]>>
    ELSE <<Digits[(n \div 10) + 1], Digits[(n % 10) + 1]>>

\* the strict branch of from_notes measuring from the second note up to the
\* first without asking which is the higher
from_notes_strict_first_higher(note_obj1, note_obj2) ==
    LET swap == FALSE
        higher == IF swap THEN note_obj2 ELSE note_obj1
        lower == IF swap THEN note_obj1 ELSE note_obj2
        letter_diff == letter(higher).i - letter(lower).i
        hard_diff == hard_pitch(higher).i - hard_pitch(lower).i
        base == BASES[(IF letter_diff < 0 THEN letter_diff + 7 ELSE letter_diff) + 1]
        expect == BASE_INTERVALS(base)
        displace == hard_diff \div 12
        pitch_diff == hard_diff % 12
        aug == IF Len(expect) = 2 /\ pitch_diff > expect[2] THEN TRUE
               ELSE pitch_diff > expect[1]
        off == IF Len(expect) = 2 /\ pitch_diff > expect[2] THEN pitch_diff - expect[2]
               ELSE IF aug THEN pitch_diff - expect[1] ELSE expect[1] - pitch_diff
        quality == IF \E i \in 1..Len(expect) : expect[i] = pitch_diff
                   THEN (IF Len(expect) = 2
                         THEN (IF pitch_diff = expect[1] THEN MIN ELSE MAJ)
                         ELSE PER)
                   ELSE IF off = 1 THEN (IF aug THEN AUG ELSE DIM)
                   ELSE (IF aug THEN AUG ELSE DIM) \o IntToStr(off)
    IN IntervalInit(PyStr(quality), PyStr(base), PyInt(displace))

\* the strict branch of from_notes, both notes having passed the octave test
from_notes_strict(note_obj1, note_obj2) ==
    LET swap == hard_pitch(note_obj2).i > hard_pitch(note_obj1).i
        higher == IF swap THEN note_obj2 ELSE note_obj1
        lower == IF swap THEN note_obj1 ELSE note_obj2
        letter_diff == letter(higher).i - letter(lower).i
        hard_diff == hard_pitch(higher).i - hard_pitch(lower).i
        base == BASES[(IF letter_diff < 0 THEN letter_diff + 7 ELSE letter_diff) + 1]
        expect == BASE_INTERVALS(base)
        displace == hard_diff \div 12
        pitch_diff == hard_diff % 12
        aug == IF Len(expect) = 2 /\ pitch_diff > expect[2] THEN TRUE
               ELSE pitch_diff > expect[1]
        off == IF Len(expect) = 2 /\ pitch_diff > expect[2] THEN pitch_diff - expect[2]
               ELSE IF aug THEN pitch_diff - expect[1] ELSE expect[1] - pitch_diff
        quality == IF \E i \in 1..Len(expect) : expect[i] = pitch_diff
                   THEN (IF Len(expect) = 2
                         THEN (IF pitch_diff = expect[1] THEN MIN ELSE MAJ)
                         ELSE PER)
                   ELSE IF off = 1 THEN (IF aug THEN AUG ELSE DIM)
                   ELSE (IF aug THEN AUG ELSE DIM) \o IntToStr(off)
    IN IntervalInit(PyStr(quality), PyStr(base), PyInt(displace))

\* Interval.from_notes(note_obj1, note_obj2, simple)
from_notes(note_obj1, note_obj2, simple) ==
    IF \E n \in {note_obj1, note_obj2} :
           n.t \notin {"Note", "Interval", "Mode"} \/ n.class_name # "Note"
    THEN Raise("ValueError")
    ELSE IF note_obj1.t # "Note" \/ note_obj2.t # "Note" THEN Raise("AttributeError")
    ELSE IF Truthy(simple)
    THEN IF simple \notin {PyStr(<<"a">>), PyStr(<<"d">>)} THEN Raise("ValueError")
         ELSE IF is_rest(note_obj1) \/ is_rest(note_obj2) THEN Raise("TypeError")
         ELSE LET d == IF simple = PyStr(<<"a">>)
                       THEN pitch(note_obj2).i - pitch(note_obj1).i
                       ELSE pitch(note_obj1).i - pitch(note_obj2).i
              IN IF d \notin -12..11 THEN Raise("IndexError")
                 ELSE LET pair == SIMPLE_INTVLS[(IF d < 0 THEN d + 12 ELSE d) + 1]
                      IN IntervalInit(PyStr(pair[1]), PyStr(pair[2]), PyInt(0))
    ELSE IF ~Truthy(octave(note_obj1)) \/ ~Truthy(octave(note_obj2))
    THEN Raise("ValueError")
    ELSE IF is_rest(note_obj1) \/ is_rest(note_obj2) THEN Raise("TypeError")
    ELSE from_notes_strict(note_obj1, note_obj2)

(***************************************************************************)
(* Note.from_hard_pitch, Note + Interval, Note - Interval                  *)
(***************************************************************************)
\* Python's floor division and modulo by 12
FloorDiv12(h) == IF h >= 0 THEN h \div 12 ELSE 0 - ((11 - h) \div 12)

Mod12(h) == h - 12 * FloorDiv12(h)

\* the scan of from_hard_pitch over __PITCH_VALUES from position index on;
\* falling off the end of the loop returns None
RECURSIVE from_hard_pitch_scan(_, _, _, _)
from_hard_pitch_scan(p, oct, prefer_flat, index) ==
    IF index > 6 THEN PyNone
    ELSE LET nt == PITCH_VALUES[index + 1] IN
      IF p = nt[2] \/ p = nt[2] + 1
      THEN IF p # nt[2] /\ prefer_flat /\ index + 1 > 6 THEN Raise("IndexError")
           ELSE NoteInit(PyStr(IF p = nt[2] THEN <<nt[1]>>
                               ELSE IF prefer_flat
                               THEN <<PITCH_VALUES[index + 2][1], "b">>
                               ELSE <<nt[1], "#">>),
                         PyInt(oct), PyInt(0), PyInt(0), PyBool(FALSE))
      ELSE from_hard_pitch_scan(p, oct, prefer_flat, index + 1)

\* Note.from_hard_pitch(hard_pitch, prefer_flat)
from_hard_pitch(h, prefer_flat) ==
    IF h.t # "int" THEN Raise("ValueError")
    ELSE IF prefer_flat.t # "bool" THEN Raise("ValueError")
    ELSE from_hard_pitch_scan(Mod12(h.i), FloorDiv12(h.i), prefer_flat.b, 0)

\* the tail of __add__ / __sub__: rhythm, dots and triplet copied onto new_note
copy_rhythm(new_note, self) ==
    Bind(IF Truthy(self.rhythm) THEN set_rhythm(new_note, self.rhythm) ELSE new_note,
         LAMBDA n2 :
      IF IsRaise(n2) THEN n2
      ELSE Bind(set_dots(n2, PyInt(self.dots)), LAMBDA n3 :
        IF IsRaise(n3) THEN n3
        ELSE set_triplet(n3, PyBool(self.triplet))))

\* variant of target_letter: the moved letter is never folded back
target_letter_unwrapped(self, interval, sign) ==
    letter(self).i + sign * letter_difference(interval)

\* the letter both methods aim at, folded back once
target_letter(self, interval, sign) ==
    LET raw_letter == letter(self).i + sign * letter_difference(interval) IN
    IF sign = 1 THEN (IF raw_letter > 6 THEN raw_letter - 7 ELSE raw_letter)
    ELSE (IF raw_letter < 0 THEN raw_letter + 7 ELSE raw_letter)

\* variant of move_hard_pitch: the moved hard pitch is spelled with flats
move_hard_pitch_flat(self, diff, sign, target) ==
    Bind(from_hard_pitch(PyInt(hard_pitch(self).i + sign * diff), PyBool(TRUE)),
         LAMBDA n0 :
      IF IsRaise(n0) THEN n0
      ELSE IF n0.t = "None" THEN Raise("AttributeError")
      ELSE IF letter(n0) # PyInt(target)
      THEN enharmonic(n0, PyNone, PyBool(FALSE))
      ELSE n0)

\* the branch of a note with an octave: the hard pitch moved, respelled when its
\* letter is not the target
move_hard_pitch(self, diff, sign, target) ==
    Bind(from_hard_pitch(PyInt(hard_pitch(self).i + sign * diff), PyBool(FALSE)),
         LAMBDA n0 :
      IF IsRaise(n0) THEN n0
      ELSE IF n0.t = "None" THEN Raise("AttributeError")
      ELSE IF letter(n0) # PyInt(target)
      THEN enharmonic(n0, PyNone, PyBool(FALSE))
      ELSE n0)

\* the branch of a note without one: the pitch class moved, folded back once
move_pitch(self, interval, diff, sign, target) ==
    LET p0 == pitch(self).i + sign * diff
        p1 == IF interval.displace > 0 THEN p0 - interval.displace * 12 ELSE p0
        p2 == IF sign = 1 THEN (IF p1 > 11 THEN p1 - 12 ELSE p1)
              ELSE (IF p1 < 0 THEN p1 + 12 ELSE p1)
    IN from_values(target, p2)

\* the note both methods build, sign = 1 for __add__ and -1 for __sub__
add_signed(self, interval, sign) ==
    IF interval.t \notin {"Note", "Interval", "Mode"} THEN Raise("ValueError")
    ELSE IF interval.class_name # "Interval" THEN Raise("ValueError")
    ELSE IF interval.t # "Interval" THEN Raise("AttributeError")
    ELSE IF letter(self).t = "None" THEN Raise("TypeError")
    ELSE Bind(target_letter(self, interval, sign), LAMBDA target :
         Bind(difference(interval), LAMBDA diff :
           IF diff.t # "int" THEN (IF IsRaise(diff) THEN diff ELSE Raise("TypeError"))
           ELSE Bind(IF Truthy(octave(self))
                     THEN move_hard_pitch(self, diff.i, sign, target)
                     ELSE move_pitch(self, interval, diff.i, sign, target),
                     LAMBDA new_note :
                  IF IsRaise(new_note) THEN new_note
                  ELSE copy_rhythm(new_note, self))))

\* Note.__add__
add(self, interval) == add_signed(self, interval, 1)

\* Note.__sub__
sub(self, interval) == add_signed(self, interval, -1)

(***************************************************************************)
(* MODES, MODE_LETTER_SPELLINGS and class Mode                             *)
(***************************************************************************)
Pattern(tup) == [t |-> "tuple", items |-> tup]
\* the string parent + digit, e.g. "ionian2"
Derived(parent, digit) == [t |-> "str", parent |-> parent, last |-> digit]

ModeNames ==
    {"ionian", "major", "dorian", "phrygian", "lydian", "mixolydian", "aeolian",
     "minor", "locrian", "major pentatonic", "minor pentatonic", "major blues",
     "minor blues", "blues", "harmonic minor", "melodic minor", "dorian flat 2",
     "lydian sharp 5", "lydian dominant", "mixolydian flat 6", "locrian sharp 2",
     "super locrian", "altered", "chromatic", "whole tone",
     "whole-half diminished", "half-whole diminished", "whole-half octatonic",
     "half-whole octatonic", "augmented"}

MODES(m) ==
    CASE m = "ionian" -> Pattern(<<2, 2, 1, 2, 2, 2, 1>>)
      [] m = "major" -> Derived("ionian", 1)
      [] m = "dorian" -> Derived("ionian", 2)
      [] m = "phrygian" -> Derived("ionian", 3)
      [] m = "lydian" -> Derived("ionian", 4)
      [] m = "mixolydian" -> Derived("ionian", 5)
      [] m = "aeolian" -> Derived("ionian", 6)
      [] m = "minor" -> Derived("ionian", 6)
      [] m = "locrian" -> Derived("ionian", 7)
      [] m = "major pentatonic" -> Pattern(<<2, 2, 3, 2, 3>>)
      [] m = "minor pentatonic" -> Derived("major pentatonic", 5)
      [] m = "major blues" -> Pattern(<<2, 1, 1, 3, 2, 3>>)
      [] m = "minor blues" -> Derived("major blues", 6)
      [] m = "blues" -> Derived("major blues", 6)
      [] m = "harmonic minor" -> Pattern(<<2, 1, 2, 2, 1, 3>>)
      [] m = "melodic minor" -> Pattern(<<2, 1, 2, 2, 2, 2, 1>>)
      [] m = "dorian flat 2" -> Derived("melodic minor", 2)
      [] m = "lydian sharp 5" -> Derived("melodic minor", 3)
      [] m = "lydian dominant" -> Derived("melodic minor", 4)
      [] m = "mixolydian flat 6" -> Derived("melodic minor", 5)
      [] m = "locrian sharp 2" -> Derived("melodic minor", 6)
      [] m = "super locrian" -> Derived("melodic minor", 7)
      [] m = "altered" -> Derived("melodic minor", 7)
      [] m = "chromatic" -> Pattern(<<1, 1, 1, 1, 1, 1, 1, 1, 1, 1, 1>>)
      [] m = "whole tone" -> Pattern(<<2, 2, 2, 2, 2>>)
      [] m = "whole-half diminished" -> Pattern(<<2, 1, 2, 1, 2, 1, 2, 1>>)
      [] m = "half-whole diminished" -> Pattern(<<1, 2, 1, 2, 1, 2, 1, 2>>)
      [] m = "whole-half octatonic" -> Derived("whole-half diminished", 1)
      [] m = "half-whole octatonic" -> Derived("half-whole diminished", 1)
      [] m = "augmented" -> Pattern(<<3, 1, 3, 1, 3, 1>>)

LetterSpellingNames ==
    {"ionian", "major pentatonic", "major blues", "harmonic minor",
     "melodic minor", "augmented"}

MODE_LETTER_SPELLINGS(m) ==
    CASE m = "ionian" -> <<1, 1, 1, 1, 1, 1, 1>>
      [] m = "major pentatonic" -> <<1, 1, 2, 1, 2>>
      [] m = "major blues" -> <<1, 0, 1, 2, 1, 2>>
      [] m = "harmonic minor" -> <<1, 1, 1, 1, 1, 1, 1>>
      [] m = "melodic minor" -> <<1, 1, 1, 1, 1, 1, 1>>
      [] m = "augmented" -> <<2, 0, 2, 0, 2, 1>>

\* Mode(root, mode): the new object or the exception
ModeInit(root, m) ==
    IF root.t \notin {"Note", "Interval", "Mode"} THEN Raise("ValueError")
    ELSE IF root.class_name # "Note" THEN Raise("ValueError")
    ELSE IF m \notin ModeNames THEN Raise("KeyError")
    ELSE [t |-> "Mode", root |-> root, mode |-> m, class_name |-> "Mode",
          shadowed |-> {}]

\* the pattern a mode names and the index its walk starts at
parent_name(m) == IF MODES(m).t = "str" THEN MODES(m).parent ELSE m

\* variant of offset: every mode is walked from the start of its parent
offset_unrotated(m) == 0

offset(m) == IF MODES(m).t = "str" THEN MODES(m).last - 1 ELSE 0

\* variant of wrap_pitch: the running pitch is never folded back
wrap_pitch_unfolded(p) == p

\* a running pitch / letter folded back once, as the walk does
wrap_pitch(p) == IF p < 0 THEN p + 12 ELSE IF p > 11 THEN p - 12 ELSE p

wrap_letter(l) == IF l < 0 THEN l + 7 ELSE IF l > 6 THEN l - 7 ELSE l

\* the walk of Mode.spelling over a pattern that has a letter spelling; state is
\* the loop's variables [sp, next_pitch, next_letter, index, n, it] before an
\* iteration (it counts the iterations of "for step in parent"), and the set
\* binding makes each iteration's variables be computed once
RECURSIVE spell_lettered(_, _, _)
spell_lettered(parent, ls, state) ==
    LET walk(st) ==
          IF st.it > Len(parent) THEN Pattern(st.sp)
          ELSE LET idx == IF st.index = Len(parent) THEN st.index - Len(parent)
                          ELSE st.index
               IN IF st.n = Len(parent) THEN Pattern(st.sp)
                  ELSE LET np == wrap_pitch(st.next_pitch + parent[idx + 1])
                           nl == wrap_letter(st.next_letter + ls[idx + 1])
                           nn == from_values(nl, np)
                       IN IF IsRaise(nn) THEN nn
                          ELSE spell_lettered(parent, ls,
                                 [sp |-> Append(st.sp, nn), next_pitch |-> np,
                                  next_letter |-> nl, index |-> idx + 1,
                                  n |-> st.n + 1, it |-> st.it + 1])
    IN CHOOSE out \in {walk(st) : st \in {state}} : TRUE

GROSS_NAMES == {<<"B", "#">>, <<"C", "b">>, <<"E", "#">>, <<"F", "b">>}

\* variant of spell_fix: the new note is taken as from_values spells it
spell_fix_uncorrected(n0, fl, sh) == [note |-> n0, flats |-> fl, sharps |-> sh]

\* one new note of the walk without a letter spelling, after its corrections:
\* [note, flats, sharps]; e1..e4 are the notes after each conditional rewrite
spell_fix(n0, fl, sh) ==
    Bind(IF Len(note_name(n0)) > 2 THEN enharmonic(n0, PyNone, PyBool(FALSE)) ELSE n0,
         LAMBDA e1 :
    IF IsRaise(e1) THEN [note |-> e1, flats |-> fl, sharps |-> sh] ELSE
    Bind(IF note_name(e1) \in GROSS_NAMES THEN enharmonic(e1, PyNone, PyBool(FALSE))
         ELSE e1,
         LAMBDA e2 :
    IF IsRaise(e2) THEN [note |-> e2, flats |-> fl, sharps |-> sh] ELSE
    LET has_sharp == Contains(note_name(e2), "#")
        sh3 == IF has_sharp /\ ~fl /\ ~sh THEN TRUE ELSE sh
    IN
    Bind(IF has_sharp /\ fl THEN enharmonic(e2, PyNone, PyBool(FALSE)) ELSE e2,
         LAMBDA e3 :
    IF IsRaise(e3) THEN [note |-> e3, flats |-> fl, sharps |-> sh3] ELSE
    LET has_flat == Contains(note_name(e3), "b")
        fl4 == IF has_flat /\ ~fl /\ ~sh3 THEN TRUE ELSE fl
    IN
    Bind(IF has_flat /\ sh3 THEN enharmonic(e3, PyNone, PyBool(FALSE)) ELSE e3,
         LAMBDA e4 : [note |-> e4, flats |-> fl4, sharps |-> sh3]))))

\* the walk of Mode.spelling over a pattern without a letter spelling; state
\* also carries the loop's flats and sharps flags
RECURSIVE spell_plain(_, _)
spell_plain(parent, state) ==
    LET walk(st) ==
          IF st.it > Len(parent) THEN Pattern(st.sp)
          ELSE LET idx == IF st.index = Len(parent) THEN st.index - Len(parent)
                          ELSE st.index
               IN IF st.n = Len(parent) THEN Pattern(st.sp)
                  ELSE LET np == wrap_pitch(st.next_pitch + parent[idx + 1])
                           nl == wrap_letter(st.next_letter + 1)
                           n0 == from_values(nl, np)
                       IN IF IsRaise(n0) THEN n0
                          ELSE \* fx: the corrected note and the flags after it
                            CHOOSE out \in
                              {IF IsRaise(fx.note) THEN fx.note
                               ELSE spell_plain(parent,
                                      [sp |-> Append(st.sp, fx.note),
                                       next_pitch |-> np, next_letter |-> nl,
                                       index |-> idx + 1, n |-> st.n + 1,
                                       it |-> st.it + 1, flats |-> fx.flats,
                                       sharps |-> fx.sharps])
                               : fx \in {spell_fix(n0, st.flats, st.sharps)}} : TRUE
    IN CHOOSE out \in {walk(st) : st \in {state}} : TRUE

\* Mode.spelling: the tuple of notes, tagged [t |-> "tuple", items |-> ...], or the
\* exception
spelling(self) ==
    IF self.root.t # "Note" THEN Raise("AttributeError")
    ELSE IF self.mode \notin ModeNames THEN Raise("KeyError")
    ELSE IF is_rest(self.root) THEN Raise("TypeError")
    ELSE LET pn == parent_name(self.mode)
             parent == MODES(pn).items
             off == offset(self.mode)
             root == self.root
         IN IF pn \in LetterSpellingNames
            THEN spell_lettered(parent, MODE_LETTER_SPELLINGS(pn),
                   [sp |-> <<root>>, next_pitch |-> pitch(root).i,
                    next_letter |-> letter(root).i, index |-> off, n |-> 1,
                    it |-> 1])
            ELSE spell_plain(parent,
                   [sp |-> <<root>>, next_pitch |-> pitch(root).i,
                    next_letter |-> letter(root).i, index |-> off, n |-> 1,
                    it |-> 1, flats |-> Contains(note_name(root), "b"),
                    sharps |-> Contains(note_name(root), "#")])

(***************************************************************************)
(* EXTENSIONS, QUALITIES and class Chord                                   *)
(***************************************************************************)
ExtensionNames ==
    {"b9", "addb9", "2", "9", "add9", "#9", "add4", "add11", "#11", "b5", "#5",
     "b6", "b13", "6", "13", "dim7", "7", "maj7"}

EXTENSIONS(ext) ==
    CASE ext = "b9" -> <<MIN, SECOND>>
      [] ext = "addb9" -> <<MIN, SECOND>>
      [] ext = "2" -> <<MAJ, SECOND>>
      [] ext = "9" -> <<MAJ, SECOND>>
      [] ext = "add9" -> <<MAJ, SECOND>>
      [] ext = "#9" -> <<AUG, SECOND>>
      [] ext = "add4" -> <<PER, FOURTH>>
      [] ext = "add11" -> <<PER, FOURTH>>
      [] ext = "#11" -> <<AUG, FOURTH>>
      [] ext = "b5" -> <<DIM, FIFTH>>
      [] ext = "#5" -> <<AUG, FIFTH>>
      [] ext = "b6" -> <<MIN, SIXTH>>
      [] ext = "b13" -> <<MIN, SIXTH>>
      [] ext = "6" -> <<MAJ, SIXTH>>
      [] ext = "13" -> <<MAJ, SIXTH>>
      [] ext = "dim7" -> <<DIM, SEVENTH>>
      [] ext = "7" -> <<MIN, SEVENTH>>
      [] ext = "maj7" -> <<MAJ, SEVENTH>>

QUALITIES == {"maj", "min", "aug", "dim", "sus", "5"}

\* Interval(quality, base) with displace at its default
NewInterval(q, b) == IntervalInit(PyStr(q), PyStr(b), PyInt(0))

\* Interval(*EXTENSIONS[ext])
ExtInterval(ext) == NewInterval(EXTENSIONS(ext)[1], EXTENSIONS(ext)[2])

\* dictionary[k] = v on a dict kept as its items in insertion order
DictSet(d, k, v) ==
    IF \E i \in 1..Len(d) : d[i].key = k
    THEN [i \in 1..Len(d) |-> IF d[i].key = k THEN [key |-> k, val |-> v] ELSE d[i]]
    ELSE Append(d, [key |-> k, val |-> v])

InTuple(x, tup) == \E i \in 1..Len(tup) : tup[i] = x

\* the candidate a "for c in cands: if c in extensions: ... break" loop stops at,
\* or "" when the loop runs to its end
FirstIn(cands, extensions) ==
    IF \E i \in 1..Len(cands) : InTuple(cands[i], extensions)
    THEN cands[CHOOSE i \in 1..Len(cands) :
                 /\ InTuple(cands[i], extensions)
                 /\ \A j \in 1..(i - 1) : ~InTuple(cands[j], extensions)]
    ELSE ""

\* the third and fifth a quality brings
triad(quality) ==
    LET fifth == CASE quality = "aug" -> NewInterval(AUG, FIFTH)
                   [] quality = "dim" -> NewInterval(DIM, FIFTH)
                   [] OTHER -> NewInterval(PER, FIFTH)
        d0 == CASE quality \in {"maj", "aug"} ->
                     <<[key |-> "third", val |-> NewInterval(MAJ, THIRD)]>>
                [] quality \in {"min", "dim"} ->
                     <<[key |-> "third", val |-> NewInterval(MIN, THIRD)]>>
                [] quality = "sus" ->
                     <<[key |-> "third", val |-> NewInterval(PER, FOURTH)]>>
                [] OTHER -> <<>>
    IN DictSet(d0, "fifth", fifth)

\* variant of upper_entries: only the extensions given are entered, a 13th
\* brings no 9th and no 7th, a 9th brings no 7th
upper_entries_explicit_only(d, quality, extensions) ==
    LET ext13 == FirstIn(<<"13", "b13">>, extensions)
        ext9 == FirstIn(<<"9", "#9", "b9">>, extensions)
        ext7 == FirstIn(<<"7", "maj7", "dim7">>, extensions)
    IN Bind(IF ext13 # "" THEN DictSet(d, "13th", ExtInterval(ext13)) ELSE d,
            LAMBDA d1 :
       Bind(IF ext9 # "" THEN DictSet(d1, "9th", ExtInterval(ext9)) ELSE d1,
            LAMBDA d2 :
         IF ext7 # "" THEN DictSet(d2, "7th", ExtInterval(ext7)) ELSE d2))

\* the 13th, 9th and 7th entries with their need7 / need9 flags
upper_entries(d, quality, extensions) ==
    LET ext13 == FirstIn(<<"13", "b13">>, extensions)
        ext9 == FirstIn(<<"9", "#9", "b9">>, extensions)
        ext7 == FirstIn(<<"7", "maj7", "dim7">>, extensions)
        need9 == ext13 # ""
        need7 == ext13 # "" \/ ext9 # ""
    IN Bind(IF ext13 # "" THEN DictSet(d, "13th", ExtInterval(ext13)) ELSE d,
            LAMBDA d1 :
       Bind(IF ext9 # "" THEN DictSet(d1, "9th", ExtInterval(ext9))
            ELSE IF need9 THEN DictSet(d1, "9th", NewInterval(MAJ, SECOND))
            ELSE d1,
            LAMBDA d2 :
         IF ext7 # "" THEN DictSet(d2, "7th", ExtInterval(ext7))
         ELSE IF need7
         THEN (IF quality = "dim" THEN DictSet(d2, "7th", NewInterval(MAJ, SIXTH))
               ELSE DictSet(d2, "7th", NewInterval(MIN, SEVENTH)))
         ELSE d2))

\* a loop "for ext in cands: if ext in extensions: dictionary[key] = ..." with
\* no break, key being the fixed key given or, when it is "", ext itself
RECURSIVE each_entry(_, _, _, _, _)
each_entry(d, cands, i, key, extensions) ==
    IF i > Len(cands) THEN d
    ELSE each_entry(IF InTuple(cands[i], extensions)
                    THEN DictSet(d, IF key = "" THEN cands[i] ELSE key,
                                 ExtInterval(cands[i]))
                    ELSE d,
                    cands, i + 1, key, extensions)

\* the dictionary Chord.__init__ builds
chord_dictionary(quality, extensions) ==
    Bind(upper_entries(triad(quality), quality, extensions), LAMBDA d3 :
    Bind(IF FirstIn(<<"2", "addb9", "add9">>, extensions) # ""
         THEN DictSet(d3, "2nd",
                      ExtInterval(FirstIn(<<"2", "addb9", "add9">>, extensions)))
         ELSE d3,
         LAMBDA d4 :
    Bind(each_entry(d4, <<"b5", "#5">>, 1, "fifth", extensions), LAMBDA d5 :
         each_entry(d5, <<"addb9", "add9", "2", "add4", "#11", "b6", "6">>, 1, "",
                    extensions))))

\* notes after "for intvl in dictionary: notes.append(root + dictionary[intvl])"
\* from entry i on, tagged [t |-> "list", items |-> ...], or the exception the
\* first failing addition raises
RECURSIVE chord_tones(_, _, _, _)
chord_tones(root, d, i, notes) ==
    IF i > Len(d) THEN [t |-> "list", items |-> notes]
    ELSE Bind(add(root, d[i].val), LAMBDA n :
           IF IsRaise(n) THEN n ELSE chord_tones(root, d, i + 1, Append(notes, n)))

\* Note.sorter_from_root: the sort key of note_object under the root self
sorter_from_root(self, note_object) ==
    IF pitch(note_object).i < pitch(self).i THEN pitch(note_object).i + 12
    ELSE pitch(note_object).i

\* list.sort(key=root.sorter_from_root): stable, by insertion
RECURSIVE sort_from_root(_, _, _, _)
sort_from_root(root, notes, i, sorted) ==
    IF i > Len(notes) THEN sorted
    ELSE LET k == sorter_from_root(root, notes[i])
             pos == Cardinality({j \in 1..Len(sorted) :
                                   sorter_from_root(root, sorted[j]) <= k})
         IN sort_from_root(root, notes, i + 1,
                           SubSeq(sorted, 1, pos) \o <<notes[i]>>
                             \o SubSeq(sorted, pos + 1, Len(sorted)))

\* the loop that drops a note of the pitch of the one before it: i is the
\* 0-based position the list iterator stands at, and removing the note at i
\* moves the following note into the position the iterator has passed
RECURSIVE drop_repeats(_, _, _)
drop_repeats(notes, i, previous_note) ==
    IF i >= Len(notes) THEN notes
    ELSE IF i = 0 THEN drop_repeats(notes, 1, previous_note)
    ELSE IF pitch(previous_note) = pitch(notes[i + 1])
    THEN drop_repeats(SubSeq(notes, 1, i) \o SubSeq(notes, i + 2, Len(notes)),
                      i + 1, notes[i + 1])
    ELSE drop_repeats(notes, i + 1, notes[i + 1])

\* Chord(root, quality, *extensions): the new object or the exception
ChordInit(root, quality, extensions) ==
    IF root.t \notin {"Note", "Interval", "Mode"} THEN Raise("ValueError")
    ELSE IF root.class_name # "Note" THEN Raise("ValueError")
    ELSE IF quality \notin QUALITIES THEN Raise("ValueError")
    ELSE IF \E i \in 1..Len(extensions) : extensions[i] \notin ExtensionNames
    THEN Raise("ValueError")
    ELSE IF root.t # "Note" THEN Raise("TypeError")
    ELSE Bind(chord_dictionary(quality, extensions), LAMBDA d :
         Bind(chord_tones(root, d, 1, <<root>>), LAMBDA tones :
           IF IsRaise(tones) THEN tones
           ELSE IF "sorter_from_root" \in root.shadowed THEN Raise("TypeError")
           ELSE [t |-> "Chord", root |-> root, quality |-> quality,
                 extensions |-> extensions, dictionary |-> d,
                 notes |-> drop_repeats(sort_from_root(root, tones.items, 1, <<>>), 0,
                                        root),
                 shadowed |-> {}]))

(***************************************************************************)
(* musictools_old.py: the chord classifier, class Chord taking note names  *)
(***************************************************************************)
\* _LETTERS: the pitch of each letter (its letter index is not used here)
OLD_LETTERS(c) ==
    CASE c = "C" -> 0 [] c = "D" -> 2 [] c = "E" -> 4 [] c = "F" -> 5
      [] c = "G" -> 7 [] c = "A" -> 9 [] c = "B" -> 11

\* Note(name) of musictools_old.py: the capitalized name, "Rest" for a rest, or
\* the exception
OldNoteInit(name) ==
    IF Len(name) = 0 THEN Raise("IndexError")
    ELSE Bind(Capitalize(name), LAMBDA nm :
      IF nm[1] \notin {"C", "D", "E", "F", "G", "A", "B"} /\ nm # <<"R">> THEN Raise("ValueError")
      ELSE IF nm = <<"R">> THEN [t |-> "OldNote", name |-> <<"R", "e", "s", "t">>]
      ELSE IF Len(nm) > 1 /\ ~(\/ \A i \in 2..Len(nm) : nm[i] = "#"
                                \/ \A j \in 2..Len(nm) : nm[j] = "b")
      THEN Raise("ValueError")
      ELSE [t |-> "OldNote", name |-> nm])

\* Note.pitch of musictools_old.py
old_pitch(self) ==
    IF self.name[1] = "R" THEN PyNone
    ELSE LET p0 == OLD_LETTERS(self.name[1]) IN
      IF Len(self.name) = 1 THEN PyInt(p0)
      ELSE IF self.name[2] = "#"
      THEN LET p == p0 + (Len(self.name) - 1) IN PyInt(IF p > 11 THEN p - 12 ELSE p)
      ELSE LET p == p0 - (Len(self.name) - 1) IN PyInt(IF p < 0 THEN p + 12 ELSE p)

\* Interval._SIMPLE_INTERVAL_NAMES
SIMPLE_INTERVAL_NAMES ==
    <<"perfect unison", "minor 2nd", "major 2nd", "minor 3rd", "major 3rd",
      "perfect 4th", "tritone", "perfect 5th", "minor 6th", "major 6th",
      "minor 7th", "major 7th">>

\* Interval(a, b).pitch_diff: the pitch difference folded by one step each way
pitch_diff(a, b) ==
    LET d0 == old_pitch(b).i - old_pitch(a).i
        d1 == IF d0 > 11 THEN d0 - 12 ELSE d0
    IN IF d1 < 0 THEN d1 + 12 ELSE d1

\* (Note(a) + Note(b)).simple_interval: the name of the pitch difference, a
\* KeyError for a difference that is no key of the table
simple_interval(a, b) ==
    IF pitch_diff(a, b) \in 0..11
    THEN PyStr(SIMPLE_INTERVAL_NAMES[pitch_diff(a, b) + 1])
    ELSE Raise("KeyError")

\* Chord(*notes, root, bass) of musictools_old.py, notes a tuple of names
OldChordInit(notes, root, bass) ==
    IF Len(notes) = 0 THEN Raise("IndexError")
    ELSE IF Truthy(root)
    THEN [t |-> "OldChord",
          notes |-> IF InTuple(root.s, notes) THEN notes ELSE <<root.s>> \o notes,
          root |-> root.s, bass |-> bass]
    ELSE [t |-> "OldChord", notes |-> notes, root |-> notes[1], bass |-> bass]

\* the pitch of each note relative to the root, from note i on, or the first
\* exception Note(note) or the subtraction raises
RECURSIVE relative_pitches(_, _, _, _)
relative_pitches(notes, root_pitch, i, keys) ==
    IF i > Len(notes) THEN [t |-> "list", items |-> keys]
    ELSE Bind(OldNoteInit(notes[i]), LAMBDA n :
      IF IsRaise(n) THEN n
      ELSE IF old_pitch(n).t = "None" \/ root_pitch.t = "None" THEN Raise("TypeError")
      ELSE LET rel == old_pitch(n).i - root_pitch.i IN
           relative_pitches(notes, root_pitch, i + 1,
                            Append(keys, IF rel < 0 THEN rel + 12 ELSE rel)))

\* sorted(keys)
RECURSIVE sorted_keys(_, _, _)
sorted_keys(keys, i, sorted) ==
    IF i > Len(keys) THEN sorted
    ELSE LET pos == Cardinality({j \in 1..Len(sorted) : sorted[j] <= keys[i]})
         IN sorted_keys(keys, i + 1,
                        SubSeq(sorted, 1, pos) \o <<keys[i]>>
                          \o SubSeq(sorted, pos + 1, Len(sorted)))

\* Chord.sorted_notes: for every key in ascending order the note last filed
\* under it
sorted_notes(self) ==
    Bind(OldNoteInit(self.root), LAMBDA r :
      IF IsRaise(r) THEN r
      ELSE Bind(relative_pitches(self.notes, old_pitch(r), 1, <<>>), LAMBDA ks :
        IF IsRaise(ks) THEN ks
        ELSE LET keyed(k) ==
                   self.notes[CHOOSE i \in 1..Len(self.notes) :
                                /\ ks.items[i] = k
                                /\ \A j \in (i + 1)..Len(self.notes) : ks.items[j] # k]
                 keys == sorted_keys(ks.items, 1, <<>>)
             IN [t |-> "list", items |-> [j \in 1..Len(keys) |-> keyed(keys[j])]]))

\* Chord.chord_intervals: the interval from the root to every sorted note; the
\* name compared with is "Unison", which no interval bears, so none is left out
chord_intervals(self) ==
    Bind(sorted_notes(self), LAMBDA sn :
      IF IsRaise(sn) THEN sn
      ELSE LET names == [j \in 1..Len(sn.items) |->
                           simple_interval(OldNoteInit(self.root),
                                           OldNoteInit(sn.items[j]))]
           IN IF \E j \in 1..Len(names) : IsRaise(names[j]) THEN Raise("KeyError")
              ELSE [t |-> "list", items |-> [j \in 1..Len(names) |-> names[j].s]])

\* the loop of intvl_note_dict from interval k on, i being the 0-based index
\* into the sorted notes
RECURSIVE intvl_note_loop(_, _, _, _, _, _)
intvl_note_loop(intvls, sn, root, k, i, d) ==
    IF k > Len(intvls) THEN [t |-> "dict", items |-> d]
    ELSE IF i >= Len(sn) THEN Raise("IndexError")
    ELSE LET i1 == IF sn[i + 1] = root THEN i + 1 ELSE i IN
         IF i1 >= Len(sn) THEN Raise("IndexError")
         ELSE intvl_note_loop(intvls, sn, root, k + 1, i1 + 1,
                              DictSet(d, intvls[k], sn[i1 + 1]))

\* Chord.intvl_note_dict
intvl_note_dict(self) ==
    Bind(chord_intervals(self), LAMBDA ci :
      IF IsRaise(ci) THEN ci
      ELSE intvl_note_loop(ci.items, sorted_notes(self).items, self.root, 1, 0, <<>>))

\* self.intvl_note_dict[key]
intvl_note(self, key) ==
    Bind(intvl_note_dict(self), LAMBDA d :
      IF IsRaise(d) THEN d
      ELSE IF \E i \in 1..Len(d.items) : d.items[i].key = key
      THEN PyStr(d.items[CHOOSE i \in 1..Len(d.items) : d.items[i].key = key].val)
      ELSE Raise("KeyError"))

\* a piece of the extensions string, added when its condition holds
Piece(cond, s) == IF cond THEN s ELSE <<>>

\* the extensions of a chord with a third that is no inversion: the pieces in
\* the order description adds them
old_extensions(triad_name, m2, M2, m3, M3, P4, TT, P5, m6, M6, m7, M7) ==
    LET has3 == m3 \/ M3
        has6 == m6 \/ M6
        has7 == m7 \/ M7
        fully == has6 /\ ~has7 /\ triad_name = "diminished" /\ M6
        b5 == TT /\ ~P5 /\ triad_name # "diminished"
    IN Piece(has6 /\ ~has7 /\ ~fully /\ M6 /\ M2, <<"(", "6", "/", "9", ")">>)
       \o Piece(has6 /\ ~has7 /\ ~fully /\ M6 /\ ~M2, <<"6">>)
       \o Piece(has6 /\ ~has7 /\ ~fully /\ ~M6 /\ m6, <<"(", "b", "6", ")">>)
       \o Piece(~has7 /\ b5, <<"(", "b", "5", ")">>)
       \o Piece(~has7 /\ m2, <<"(", "a", "d", "d", "b", "9", ")">>)
       \o Piece(~has7 /\ ~m2 /\ M2 /\ ~M6, <<"(", "a", "d", "d", "9", ")">>)
       \o Piece(has7 /\ M3 /\ M7, <<"m", "a", "j">>)
       \o Piece(has7 /\ M6, <<"1", "3">>)
       \o Piece(has7 /\ ~M6 /\ M2, <<"9">>)
       \o Piece(has7 /\ ~M3 /\ M7, <<"(", "m", "a", "j", "7", ")">>)
       \o Piece(has7 /\ ~(~M3 /\ M7) /\ ~M6 /\ ~M2, <<"7">>)
       \o Piece(has7 /\ b5, <<"(", "b", "5", ")">>)
       \o Piece(has7 /\ m2, <<"(", "b", "9", ")">>)
       \o Piece(has7 /\ m6, <<"(", "b", "1", "3", ")">>)
       \o Piece(fully /\ M2, <<"9">>)
       \o Piece(fully /\ M7, <<"(", "m", "a", "j", "7", ")">>)
       \o Piece(fully /\ ~M7 /\ ~M2, <<"7">>)
       \o Piece(fully /\ m2, <<"(", "b", "9", ")">>)
       \o Piece(M3 /\ m3, <<"(", "#", "9", ")">>)
       \o Piece(P4 /\ has3, <<"(", "a", "d", "d", "4", ")">>)
       \o Piece(M3 /\ m3, <<"(", "#", "9", ")">>)
       \o Piece(TT /\ P5, <<"(", "#", "1", "1", ")">>)

\* Chord.description: the dictionary, its keys "sus" and "triad" holding
\* "<unset>" when description never sets them, or the exception; an inversion
\* is described as the chord rebuilt on the note its interval names
RECURSIVE description(_)
description(self) ==
    Bind(chord_intervals(self), LAMBDA ci :
    IF IsRaise(ci) THEN ci
    ELSE
    LET has(nm) == InTuple(nm, ci.items)
        m2 == has("minor 2nd")
        M2 == has("major 2nd")
        m3 == has("minor 3rd")
        M3 == has("major 3rd")
        P4 == has("perfect 4th")
        TT == has("tritone")
        P5 == has("perfect 5th")
        m6 == has("minor 6th")
        M6 == has("major 6th")
        m7 == has("minor 7th")
        M7 == has("major 7th")
        has2 == m2 \/ M2
        has3 == m3 \/ M3
        has6 == m6 \/ M6
        has7 == m7 \/ M7
        blank == [t |-> "dict", extensions |-> <<>>, true_root |-> self.root,
                  seventh_chord |-> FALSE, sixth_chord |-> FALSE,
                  diminished_type |-> "", sus |-> "<unset>", triad |-> "<unset>"]
        rebuilt(notes, key) ==
            Bind(intvl_note(self, key), LAMBDA rt :
              IF IsRaise(rt) THEN rt
              ELSE description(OldChordInit(notes, rt, PyStr(self.root))))
        triad_name == IF M3 THEN (IF m6 /\ ~P5 THEN "augmented" ELSE "major")
                 ELSE (IF ~TT \/ P5 THEN "minor" ELSE "diminished")
        fully == has6 /\ ~has7 /\ triad_name = "diminished" /\ M6
    IN
    IF ~has3
    THEN IF P4 /\ P5
         THEN [blank EXCEPT !.sus = "True", !.extensions = <<"(", "s", "u", "s", ")">>]
         ELSE IF P4 /\ has6 THEN rebuilt(self.notes, "Perfect 4th")
         ELSE IF has2 /\ (P4 \/ TT) /\ has6
         THEN (IF m2 THEN rebuilt(self.notes, "Minor 2nd")
               ELSE Bind(intvl_note(self, "Major 2nd"), LAMBDA rt :
                      IF IsRaise(rt) THEN rt
                      ELSE description(OldChordInit(sorted_notes(self).items, rt,
                                                    PyStr(self.root)))))
         ELSE blank
    ELSE IF has6 /\ ~TT /\ ~P5
    THEN (IF m6 THEN rebuilt(self.notes, "Minor 6th")
          ELSE rebuilt(self.notes, "Major 6th"))
    ELSE [blank EXCEPT
            !.triad = triad_name,
            !.seventh_chord = fully,
            !.sixth_chord = has6 /\ ~has7 /\ ~fully,
            !.diminished_type = IF triad_name = "diminished" /\ m7 THEN "half"
                                ELSE IF fully THEN "fully" ELSE "",
            !.extensions =
                old_extensions(triad_name, m2, M2, m3, M3, P4, TT, P5, m6, M6, m7, M7)
                  \o (IF Truthy(self.bass) THEN <<"/">> \o self.bass.s ELSE <<>>)])

\* Chord.symbol without the extensions: the true root and the mark of the triad
symbol_triad_only(self) ==
    Bind(description(self), LAMBDA d :
      IF IsRaise(d) THEN d
      ELSE IF d.triad = "<unset>" THEN Raise("KeyError")
      ELSE PyStr(d.true_root
                   \o (CASE d.triad = "minor" -> <<"m">>
                         [] d.triad = "augmented" -> <<"+">>
                         [] d.triad = "diminished" ->
                              (IF d.diminished_type = "half" THEN <<"%">> ELSE <<"°">>)
                         [] OTHER -> <<>>)))

\* Chord.symbol: the true root, the mark of the triad and the extensions
symbol(self) ==
    Bind(description(self), LAMBDA d :
      IF IsRaise(d) THEN d
      ELSE IF d.triad = "<unset>" THEN Raise("KeyError")
      ELSE PyStr(d.true_root
                   \o (CASE d.triad = "minor" -> <<"m">>
                         [] d.triad = "augmented" -> <<"+">>
                         [] d.triad = "diminished" ->
                              (IF d.diminished_type = "half" THEN <<"%">> ELSE <<"°">>)
                         [] OTHER -> <<>>)
                   \o d.extensions))

(***************************************************************************)
(* _Meta.__setattr__ after _lock, with the properties of each class        *)
(***************************************************************************)
\* properties that have a setter
SetterProps(kind) ==
    IF kind = "Note" THEN {"octave", "dots", "triplet", "rhythm"} ELSE {}

\* properties that have none
ReadOnlyProps(kind) ==
    CASE kind = "Note" -> {"is_rest", "name", "note_name", "letter", "sharps", "flats",
                           "pitch", "pitch_offset", "hard_pitch", "frequency"}
      [] kind = "Interval" -> {"quality", "base", "displace", "difference",
                               "letter_difference", "name"}
      [] kind = "Mode" -> {"name", "spelling", "string_spelling"}
      [] kind = "Chord" -> {"root", "quality", "extensions", "dictionary", "notes"}

\* public class-level names that are no property: constants and methods
ClassNames(kind) ==
    CASE kind = "Note" -> {"class_name", "RHYTHM_SETTER_VALUES", "enharmonic",
                           "sorter_by_hard_pitch", "sorter_from_root", "from_values",
                           "from_hard_pitch", "from_frequency"}
      [] kind = "Interval" -> {"class_name", "BASES", "from_notes"}
      [] kind = "Mode" -> {"class_name"}
      [] kind = "Chord" -> {}

\* public names __init__ stores on the instance itself
InstanceNames(kind) == IF kind = "Mode" THEN {"root", "mode"} ELSE {}

\* _Meta.__RESTRICTED
RESTRICTED == {"enharmonic"}

\* the names under check that start with "__"
DunderNames == {"__doc__", "__class__"}

\* the public part of dir(self), and the names above that start with "__"
Dir(self) ==
    SetterProps(self.t) \cup ReadOnlyProps(self.t) \cup ClassNames(self.t)
        \cup InstanceNames(self.t) \cup DunderNames

\* variant of SetAttr: a property without a setter does not refuse the
\* assignment, the value is stored over the field or on the instance
SetAttr_no_readonly(self, name, value) ==
    IF name \notin Dir(self) \/ name \in RESTRICTED \/ name \in DunderNames
    THEN Raise("AttributeError")
    ELSE IF name \in SetterProps(self.t)
    THEN CASE name = "octave" -> set_octave(self, value)
           [] name = "dots" -> set_dots(self, value)
           [] name = "triplet" -> set_triplet(self, value)
           [] name = "rhythm" -> set_rhythm(self, value)
    ELSE IF name \in {"root", "mode", "class_name", "quality", "base", "displace"}
    THEN [self EXCEPT ![name] = value]
    ELSE [self EXCEPT !.shadowed = @ \cup {name}]

\* "self.name = value" on a locked object: the object afterwards, or the
\* exception
SetAttr(self, name, value) ==
    IF name \notin Dir(self) \/ name \in RESTRICTED \/ name \in DunderNames
    THEN Raise("AttributeError")
    ELSE IF name \in SetterProps(self.t)
    THEN CASE name = "octave" -> set_octave(self, value)
           [] name = "dots" -> set_dots(self, value)
           [] name = "triplet" -> set_triplet(self, value)
           [] name = "rhythm" -> set_rhythm(self, value)
    ELSE IF name \in ReadOnlyProps(self.t) THEN Raise("AttributeError")
    ELSE IF name = "root" THEN [self EXCEPT !.root = value]
    ELSE IF name = "mode" THEN [self EXCEPT !.mode = value]
    ELSE IF name = "class_name" THEN [self EXCEPT !.class_name = value]
    ELSE [self EXCEPT !.shadowed = @ \cup {name}]

(***************************************************************************)
(* The state: the tuning reference A4 (the module global __A4), the Note,  *)
(* Interval, Mode and Chord objects a client holds (PyNone before it has  *)
(* built one), and res, the last call made and what it returned or raised *)
(***************************************************************************)
Init ==
    /\ A4 = PyInt(440)
    /\ note = PyNone
    /\ ivl = PyNone
    /\ mode = PyNone
    /\ chord = PyNone
    /\ res = [op |-> "init"]

LetterChars == {"C", "D", "E", "F", "G", "A", "B"}

\* well-formed names: a letter and a run of sharps or of flats
UniformNames(maxacc) ==
    {<<l>> \o Repeat(a, k) : l \in LetterChars, a \in {"#", "b"}, k \in 0..maxacc}

RawAlphabet == {"C", "B", "b", "#", " ", "R", "e", "H"}

RECURSIVE SeqsUpTo(_, _)
SeqsUpTo(S, n) ==
    IF n = 0 THEN {<<>>}
    ELSE LET shorter == SeqsUpTo(S, n - 1) IN
         shorter \cup {Append(q, c) : q \in {x \in shorter : Len(x) = n - 1}, c \in S}

\* constructor arguments for the name: well-formed names, every short string
\* over RawAlphabet, and two values that are no strings
NameArgs ==
    {PyStr(r) : r \in UniformNames(MaxAcc) \cup SeqsUpTo(RawAlphabet, MaxRaw)}
        \cup {PyInt(3), PyNone}

\* Note(name): the client's first note
ConstructName ==
    /\ res.op = "init"
    /\ \E name \in NameArgs :
         LET r == NoteInit(name, PyNone, PyInt(0), PyInt(0), PyBool(FALSE)) IN
         /\ note' = IF IsRaise(r) THEN note ELSE r
         /\ res' = [op |-> "Note", args |-> <<name>>, out |-> r]
    /\ UNCHANGED <<A4, ivl, mode, chord>>

\* note.pitch
QueryPitch ==
    /\ note.t = "Note"
    /\ res' = [op |-> "pitch", out |-> pitch(note)]
    /\ UNCHANGED <<A4, note, ivl, mode, chord>>

PreferArgs == {PyNone, PyStr(<<"#">>), PyStr(<<"b">>), PyStr(<<"x">>)}
GrossArgs == {PyBool(TRUE), PyBool(FALSE), PyInt(1)}

\* note.enharmonic(prefer, gross)
Enharmonic ==
    /\ note.t = "Note"
    /\ \E prefer \in PreferArgs, gross \in GrossArgs :
         LET c == enharmonic_call(note, prefer, gross) IN
         /\ res' = [op |-> "enharmonic", args |-> <<prefer, gross>>, out |-> c.ret,
                    same |-> c.same, recv |-> note]
         /\ note' = c.recv
    /\ UNCHANGED <<A4, ivl, mode, chord>>

\* Note.from_values(l, p), called before any note is held
FromValues ==
    /\ res.op = "init"
    /\ \E l \in -1..7, p \in -1..12 :
         res' = [op |-> "from_values", args |-> <<l, p>>, out |-> from_values(l, p)]
    /\ UNCHANGED <<A4, note, ivl, mode, chord>>

NextNames ==
    \/ ConstructName
    \/ QueryPitch
    \/ Enharmonic
    \/ FromValues

\* note construction, pitch, from_values and enharmonic over the note names
SpecNames == Init /\ [][NextNames]_vars

(***************************************************************************)
(* The tuning reference and the octave-aware queries                       *)
(***************************************************************************)
\* highest octave number a note is built with
MaxOctave == 6

HzArgs ==
    {PyInt(440), PyInt(432), PyInt(0), PyInt(-1), PyFloat("fin", 442),
     PyFloat("fin", 0), PyFloat("nan", 0), PyStr(<<"4", "4", "0">>), PyBool(TRUE),
     PyNone}

\* set_A4(Hz)
SetA4 ==
    /\ \E Hz \in HzArgs :
         LET r == set_A4(Hz) IN
         /\ A4' = IF IsRaise(r) THEN A4 ELSE r
         /\ res' = [op |-> "set_A4", args |-> <<Hz>>,
                    out |-> IF IsRaise(r) THEN r ELSE PyNone]
    /\ UNCHANGED <<note, ivl, mode, chord>>

\* get_A4()
GetA4 ==
    /\ res' = [op |-> "get_A4", out |-> get_A4]
    /\ UNCHANGED <<A4, note, ivl, mode, chord>>

TuningNames == {<<"A">>, <<"C">>, <<"B", "#">>, <<"A", "b">>, <<"R">>}

OctaveArgs == {PyNone, PyStr(<<"4">>)} \cup {PyInt(o) : o \in -1..MaxOctave}

\* Note(name, octave): the client's note
ConstructNote ==
    /\ note = PyNone
    /\ \E nm \in TuningNames, o \in OctaveArgs :
         LET r == NoteInit(PyStr(nm), o, PyInt(0), PyInt(0), PyBool(FALSE)) IN
         /\ note' = IF IsRaise(r) THEN note ELSE r
         /\ res' = [op |-> "Note", args |-> <<PyStr(nm), o>>, out |-> r]
    /\ UNCHANGED <<A4, ivl, mode, chord>>

\* note.hard_pitch
QueryHardPitch ==
    /\ note.t = "Note"
    /\ res' = [op |-> "hard_pitch", out |-> hard_pitch(note)]
    /\ UNCHANGED <<A4, note, ivl, mode, chord>>

\* note.frequency
QueryFrequency ==
    /\ note.t = "Note"
    /\ res' = [op |-> "frequency", out |-> frequency(note)]
    /\ UNCHANGED <<A4, note, ivl, mode, chord>>

Next ==
    \/ SetA4
    \/ GetA4
    \/ ConstructNote
    \/ QueryHardPitch
    \/ QueryFrequency

\* the tuning reference, notes with octaves, hard pitch and frequency
Spec == Init /\ [][Next]_vars

(***************************************************************************)
(* Intervals                                                               *)
(***************************************************************************)
\* longest numeral suffix of a quality under check
MaxSuffixLen == 2

DigitChars(n) == {Digits[d + 1] : d \in 0..n}

QualityArgs ==
    {PyStr(k \o sfx) : k \in {MAJ, MIN, PER, AUG, DIM, <<"f", "o", "o">>},
                       sfx \in SeqsUpTo(DigitChars(MaxTimes), MaxSuffixLen)}
        \cup {PyStr(<<" ", "M", "a", "j">>), PyInt(3)}

BaseArgs ==
    {PyStr(b) : b \in BaseSet} \cup {PyStr(<<"8", "t", "h">>),
                                      PyStr(<<"5", "T", "H", " ">>), PyNone}

DisplaceArgs == {PyInt(d) : d \in -1..MaxDisplace} \cup {PyNone}

\* Interval(quality, base, displace): the client's interval
ConstructInterval ==
    /\ ivl = PyNone
    /\ res.op = "init"
    /\ \E q \in QualityArgs, b \in BaseArgs, d \in DisplaceArgs :
         LET r == IntervalInit(q, b, d) IN
         /\ ivl' = IF IsRaise(r) THEN ivl ELSE r
         /\ res' = [op |-> "Interval", args |-> <<q, b, d>>, out |-> r]
    /\ UNCHANGED <<A4, note, mode, chord>>

\* ivl.difference
QueryDifference ==
    /\ ivl.t = "Interval"
    /\ res' = [op |-> "difference", out |-> difference(ivl)]
    /\ UNCHANGED <<A4, note, ivl, mode, chord>>

\* ivl.letter_difference
QueryLetterDifference ==
    /\ ivl.t = "Interval"
    /\ res' = [op |-> "letter_difference", out |-> PyInt(letter_difference(ivl))]
    /\ UNCHANGED <<A4, note, ivl, mode, chord>>

NextInterval ==
    \/ ConstructInterval
    \/ QueryDifference
    \/ QueryLetterDifference

\* interval construction and the semitone / letter differences
SpecInterval == Init /\ [][NextInterval]_vars

(***************************************************************************)
(* Modes                                                                   *)
(***************************************************************************)
\* most accidentals of a mode's root under check
MaxRootAcc == 1

\* Note(name): the root of the client's mode
ConstructRoot ==
    /\ note = PyNone
    /\ res.op = "init"
    /\ \E nm \in UniformNames(MaxRootAcc) \cup {<<"R">>} :
         LET r == NewNote(nm) IN
         /\ note' = IF IsRaise(r) THEN note ELSE r
         /\ res' = [op |-> "Note", args |-> <<PyStr(nm)>>, out |-> r]
    /\ UNCHANGED <<A4, ivl, mode, chord>>

\* Mode(note, m): the client's mode
ConstructMode ==
    /\ note.t = "Note"
    /\ mode = PyNone
    /\ \E m \in ModeNames \cup {"bebop"} :
         LET r == ModeInit(note, m) IN
         /\ mode' = IF IsRaise(r) THEN mode ELSE r
         /\ res' = [op |-> "Mode", args |-> <<note, m>>, out |-> r]
    /\ UNCHANGED <<A4, note, ivl, chord>>

\* mode.spelling
QuerySpelling ==
    /\ mode.t = "Mode"
    /\ res' = [op |-> "spelling", out |-> spelling(mode)]
    /\ UNCHANGED <<A4, note, ivl, mode, chord>>

NextMode ==
    \/ ConstructRoot
    \/ ConstructMode
    \/ QuerySpelling

\* mode construction and spelling
SpecMode == Init /\ [][NextMode]_vars

(***************************************************************************)
(* One object under assignment and operations                              *)
(***************************************************************************)
Unheld == note = PyNone /\ ivl = PyNone /\ mode = PyNone /\ chord = PyNone

\* the object the client holds
Subject ==
    IF note # PyNone THEN note
    ELSE IF ivl # PyNone THEN ivl
    ELSE IF mode # PyNone THEN mode
    ELSE chord

\* Note(name, octave)
BuildNote ==
    /\ Unheld
    /\ \E nm \in {<<"C">>, <<"F", "#", "#">>, <<"R">>}, o \in {PyNone, PyInt(4)} :
         /\ note' = NoteInit(PyStr(nm), o, PyInt(0), PyInt(0), PyBool(FALSE))
         /\ res' = [op |-> "Note", args |-> <<PyStr(nm), o>>]
    /\ UNCHANGED <<A4, ivl, mode, chord>>

OperandIntervals ==
    <<IntervalInit(PyStr(MAJ), PyStr(THIRD), PyInt(0)),
      IntervalInit(PyStr(PER), PyStr(FIFTH), PyInt(0)),
      IntervalInit(PyStr(DIM \o <<"2">>), PyStr(SEVENTH), PyInt(1))>>

\* Interval(quality, base, displace)
BuildInterval ==
    /\ Unheld
    /\ \E k \in 1..Len(OperandIntervals) :
         /\ ivl' = OperandIntervals[k]
         /\ res' = [op |-> "Interval", args |-> <<k>>]
    /\ UNCHANGED <<A4, note, mode, chord>>

\* Mode(Note(name), m)
BuildMode ==
    /\ Unheld
    /\ \E nm \in {<<"C">>, <<"B", "b">>}, m \in {"major", "dorian", "chromatic"} :
         /\ mode' = ModeInit(NewNote(nm), m)
         /\ res' = [op |-> "Mode", args |-> <<PyStr(nm), m>>]
    /\ UNCHANGED <<A4, note, ivl, chord>>

\* Chord(Note(name), quality, *extensions)
BuildChord ==
    /\ Unheld
    /\ \E nm \in {<<"C">>, <<"F", "#">>}, q \in {"maj", "dim"},
          exts \in {<<>>, <<"7">>, <<"13", "b5">>} :
         /\ chord' = ChordInit(NewNote(nm), q, exts)
         /\ res' = [op |-> "Chord", args |-> <<PyStr(nm), q, exts>>]
    /\ UNCHANGED <<A4, note, ivl, mode>>

\* the values an assignment to name is tried with
AssignedValues(name) ==
    CASE name = "octave" -> {PyNone, PyInt(5), PyStr(<<"5">>)}
      [] name = "dots" -> {PyInt(2), PyInt(-1)}
      [] name = "triplet" -> {PyBool(TRUE), PyInt(1)}
      [] name = "rhythm" -> {PyInt(5), PyInt(11)}
      [] name = "root" -> {NewNote(<<"D">>), PyInt(5)}
      [] name = "mode" -> {"dorian", "bebop"}
      [] name = "class_name" -> {"Note", "Interval"}
      [] OTHER -> {PyInt(5)}

\* the names an assignment is tried on: the properties with a setter, some
\* without, the instance's own names, a class constant, a method, the
\* restricted name, a name starting with "__" and a name the class lacks
AssignedNames(kind) ==
    CASE kind = "Note" -> {"octave", "dots", "triplet", "rhythm", "pitch", "note_name",
                           "class_name", "from_values", "enharmonic", "__doc__",
                           "color"}
      [] kind = "Interval" -> {"quality", "base", "displace", "difference",
                               "class_name", "BASES", "__doc__", "color"}
      [] kind = "Mode" -> {"root", "mode", "spelling", "class_name", "__doc__",
                           "color"}
      [] kind = "Chord" -> {"root", "quality", "extensions", "dictionary", "notes",
                            "__doc__", "color"}

\* subject.name = value
Assign ==
    /\ ~Unheld
    /\ \E name \in AssignedNames(Subject.t) :
         \E value \in AssignedValues(name) :
           LET r == SetAttr(Subject, name, value)
               after(obj) == IF obj # PyNone /\ ~IsRaise(r) THEN r ELSE obj
           IN /\ res' = [op |-> "setattr", name |-> name, value |-> value,
                         out |-> IF IsRaise(r) THEN r ELSE PyNone]
              /\ note' = after(note)
              /\ ivl' = after(ivl)
              /\ mode' = after(mode)
              /\ chord' = after(chord)
    /\ UNCHANGED A4

\* note + interval and note - interval, the held object being the receiver or
\* the interval operand
AddSub ==
    /\ note # PyNone \/ ivl # PyNone
    /\ \E sign \in {1, -1}, k \in 1..Len(OperandIntervals) :
         LET self == IF note # PyNone THEN note ELSE NewNoteOct(<<"C">>, 4)
             interval == IF ivl # PyNone THEN ivl ELSE OperandIntervals[k]
         IN res' = [op |-> IF sign = 1 THEN "add" ELSE "sub",
                    args |-> <<self, interval>>,
                    out |-> add_signed(self, interval, sign)]
    /\ UNCHANGED <<A4, note, ivl, mode, chord>>

NextObjects ==
    \/ BuildNote
    \/ BuildInterval
    \/ BuildMode
    \/ BuildChord
    \/ Assign
    \/ Enharmonic
    \/ AddSub
    \/ QuerySpelling

\* one object, assignments to its attributes and the operations on it
SpecObjects == Init /\ [][NextObjects]_vars

(***************************************************************************)
(* Hard pitches, Note + Interval, Note - Interval, Interval.from_notes     *)
(***************************************************************************)
MaxHard == 30
MaxOperandAcc == 2
MaxOperandOctave == 1

\* the names of the notes taken as operands, and the rest
OperandNames == UniformNames(MaxOperandAcc) \cup {<<"R">>}

OperandOctaves == {PyNone} \cup {PyInt(o) : o \in -1..MaxOperandOctave}

OperandQualities == {MAJ, MIN, PER, AUG, DIM, AUG \o <<"2">>, DIM \o <<"2">>}

\* the intervals taken as operands: every accepted quality / base pair
OperandIntervalSet ==
    {r \in {IntervalInit(PyStr(q), PyStr(b), PyInt(d)) :
              q \in OperandQualities, b \in BaseSet, d \in 0..MaxDisplace} :
       ~IsRaise(r)}

\* the second notes given to from_notes: with and without octaves, and the
\* name of most sharps
OtherNotes ==
    {NewNote(<<"E">>), NewNoteOct(<<"E">>, 0), NewNoteOct(<<"E">>, 1),
     NewNoteOct(<<"D", "b", "b">>, 1), NewNoteOct(<<"B", "#">>, -1),
     NewNote(<<"B">> \o Repeat("#", MaxAcc))}

\* Note.from_hard_pitch(h, prefer_flat), called before any note is held
FromHardPitch ==
    /\ res.op = "init"
    /\ \E h \in {PyInt(k) : k \in (0 - MaxHard)..MaxHard} \cup {PyNone},
          prefer_flat \in {PyBool(TRUE), PyBool(FALSE), PyInt(1)} :
         res' = [op |-> "from_hard_pitch", args |-> <<h, prefer_flat>>,
                 out |-> from_hard_pitch(h, prefer_flat)]
    /\ UNCHANGED <<A4, note, ivl, mode, chord>>

\* Note(name, octave): the receiver of the one operation that follows, each
\* operation being a pure function of the note
ConstructOperand ==
    /\ note = PyNone
    /\ \E nm \in OperandNames, o \in OperandOctaves :
         LET r == NoteInit(PyStr(nm), o, PyInt(0), PyInt(0), PyBool(FALSE)) IN
         /\ note' = IF IsRaise(r) THEN note ELSE r
         /\ res' = [op |-> "Note", args |-> <<PyStr(nm), o>>, out |-> r]
    /\ UNCHANGED <<A4, ivl, mode, chord>>

\* note + interval
AddInterval ==
    /\ note.t = "Note"
    /\ res.op = "Note"
    /\ \E interval \in OperandIntervalSet :
         res' = [op |-> "add", recv |-> note, interval |-> interval,
                 out |-> add(note, interval)]
    /\ UNCHANGED <<A4, note, ivl, mode, chord>>

\* note - interval
SubInterval ==
    /\ note.t = "Note"
    /\ res.op = "Note"
    /\ \E interval \in OperandIntervalSet :
         res' = [op |-> "sub", recv |-> note, interval |-> interval,
                 out |-> sub(note, interval)]
    /\ UNCHANGED <<A4, note, ivl, mode, chord>>

\* Interval.from_notes(note, other, simple) and from_notes(other, note, simple)
FromNotes ==
    /\ note.t = "Note"
    /\ res.op = "Note"
    /\ \E other \in OtherNotes, swapped \in BOOLEAN,
          simple \in {PyNone, PyStr(<<"a">>), PyStr(<<"d">>), PyStr(<<"x">>)} :
         LET a == IF swapped THEN other ELSE note
             b == IF swapped THEN note ELSE other
         IN res' = [op |-> "from_notes", args |-> <<a, b, simple>>,
                    out |-> from_notes(a, b, simple)]
    /\ UNCHANGED <<A4, note, ivl, mode, chord>>

\* (note + interval) - interval and (note - interval) + interval
AddThenSub ==
    /\ note.t = "Note"
    /\ res.op = "Note"
    /\ \E interval \in OperandIntervalSet :
         LET up == add(note, interval)
             down == sub(note, interval)
         IN res' = [op |-> "add_sub", recv |-> note, interval |-> interval,
                    up_down |-> IF IsRaise(up) THEN up ELSE sub(up, interval),
                    down_up |-> IF IsRaise(down) THEN down ELSE add(down, interval)]
    /\ UNCHANGED <<A4, note, ivl, mode, chord>>

NextArith ==
    \/ FromHardPitch
    \/ ConstructOperand
    \/ AddInterval
    \/ SubInterval
    \/ FromNotes
    \/ AddThenSub

\* notes built from hard pitches, moved by intervals and measured in pairs
SpecArith == Init /\ [][NextArith]_vars

(***************************************************************************)
(* Chords built from a root, a quality and extensions                      *)
(***************************************************************************)
\* the roots of the chords: naturals, a sharp, a flat, a respelled C, roots with
\* an octave, and a rest
ChordRoots ==
    {NewNote(<<"C">>), NewNote(<<"F", "#">>), NewNote(<<"B", "b">>),
     NewNote(<<"B", "#">>), NewNoteOct(<<"C">>, 4), NewNoteOct(<<"E", "#", "#">>, 4),
     NewNote(<<"R">>)}

\* the extension tuples: none, one extension, valid or not, every pair that
\* starts with an extension implying others, and the two names of the 2nd
ExtensionTuples ==
    LET given == ExtensionNames \cup {"11"} IN
    {<<>>} \cup {<<e>> : e \in given}
        \cup {<<e, f>> : e \in {"13", "b13", "9", "#9", "b9"}, f \in given}
        \cup {<<"2", "add9">>}

\* Chord(root, quality, *extensions), the client's first call
ConstructChord ==
    /\ res.op = "init"
    /\ \E root \in ChordRoots, quality \in QUALITIES \cup {"major"},
          extensions \in ExtensionTuples :
         LET r == ChordInit(root, quality, extensions) IN
         /\ chord' = IF IsRaise(r) THEN chord ELSE r
         /\ res' = [op |-> "Chord", args |-> <<root, quality, extensions>>,
                    out |-> IF IsRaise(r) THEN r ELSE PyNone]
    /\ UNCHANGED <<A4, note, ivl, mode>>

\* chord.notes
QueryNotes ==
    /\ chord.t = "Chord"
    /\ res' = [op |-> "notes", out |-> chord.notes]
    /\ UNCHANGED <<A4, note, ivl, mode, chord>>

NextChord ==
    \/ ConstructChord
    \/ QueryNotes

\* chords and the notes they hold
SpecChord == Init /\ [][NextChord]_vars

(***************************************************************************)
(* Operations of the chord classifier of musictools_old.py                 *)
(***************************************************************************)
\* the notes a chord is built from: every pitch of the octave under one name
OldNotePool ==
    << <<"C">>, <<"D", "b">>, <<"D">>, <<"E", "b">>, <<"E">>, <<"F">>, <<"F", "#">>,
       <<"G">>, <<"A", "b">>, <<"A">>, <<"B", "b">>, <<"B">> >>

\* first notes of a chord, the root when none is named: capitalized names, a
\* name in lower case and a rest
OldChordRoots == { <<"C">>, <<"F", "#">>, <<"B", "b">>, <<"e", "b">>, <<"R">> }

\* the most notes a chord is given after its first
MaxOldNotes == 4

\* the sets of at most MaxOldNotes indices into the pool
OldNoteSets == {S \in SUBSET (1..Len(OldNotePool)) : Cardinality(S) <= MaxOldNotes}

\* the notes of the pool at the indices S, in the order of the pool
RECURSIVE PoolNotes(_, _)
PoolNotes(S, i) ==
    IF i > Len(OldNotePool) THEN <<>>
    ELSE (IF i \in S THEN <<OldNotePool[i]>> ELSE <<>>) \o PoolNotes(S, i + 1)

\* a tuple read backwards
Reversed(s) == [i \in 1..Len(s) |-> s[Len(s) + 1 - i]]

\* Chord(first, *others): others a set of notes of the pool, given in the
\* order of the pool or against it
ConstructOldChord ==
    /\ res.op = "init"
    /\ \E first \in OldChordRoots, S \in OldNoteSets,
          backwards \in BOOLEAN :
         LET others == IF backwards THEN Reversed(PoolNotes(S, 1)) ELSE PoolNotes(S, 1)
             notes == <<first>> \o others
         IN /\ chord' = OldChordInit(notes, PyNone, PyNone)
            /\ res' = [op |-> "OldChord", args |-> notes, out |-> PyNone]
    /\ UNCHANGED <<A4, note, ivl, mode>>

\* chord.description
QueryDescription ==
    /\ chord.t = "OldChord"
    /\ res.op = "OldChord"
    /\ res' = [op |-> "description", out |-> description(chord)]
    /\ UNCHANGED <<A4, note, ivl, mode, chord>>

\* chord.symbol
QuerySymbol ==
    /\ chord.t = "OldChord"
    /\ res.op = "OldChord"
    /\ res' = [op |-> "symbol", out |-> symbol(chord)]
    /\ UNCHANGED <<A4, note, ivl, mode, chord>>

NextOldChord ==
    \/ ConstructOldChord
    \/ QueryDescription
    \/ QuerySymbol

\* chords of note names and what the classifier says of them
SpecOldChord == Init /\ [][NextOldChord]_vars

(***************************************************************************)
(* Properties of note names: construction, pitch, from_values, enharmonic  *)
(***************************************************************************)
NaturalPitch(l) == PITCH_VALUES[l + 1][2]

\* number of accidental characters of a note
AccCount(n) == Len(n.name) - 1

\* a letter followed by a run of sharps only or of flats only
IsUniformName(nm) ==
    /\ Len(nm) >= 1
    /\ nm[1] \in LetterChars
    /\ \/ \A i \in 2..Len(nm) : nm[i] = "#"
       \/ \A i \in 2..Len(nm) : nm[i] = "b"

\* sharps counted up, flats counted down, of a uniform name
SignedAccidentals(nm) ==
    IF Len(nm) >= 2 /\ nm[2] = "b" THEN 0 - (Len(nm) - 1) ELSE Len(nm) - 1

LetterIndex(c) == (CHOOSE i \in 1..7 : PITCH_VALUES[i][1] = c) - 1

\* the pitch class a uniform name denotes
PitchClassOfName(nm) == (NaturalPitch(LetterIndex(nm[1])) + SignedAccidentals(nm)) % 12

Abs(k) == IF k < 0 THEN 0 - k ELSE k

\* the fewest accidentals with which letter l spells pitch class p
MinAccidentals(l, p) ==
    LET ks == {k \in -12..12 : (NaturalPitch(l) + k) % 12 = p}
    IN Abs(CHOOSE k \in ks : \A j \in ks : Abs(k) <= Abs(j))

\* C1: for every letter L in 0..6 and pitch class P in 0..11, from_values(L, P)
\* is a note on letter L with pitch exactly P, spelled with the fewest
\* accidentals possible on that letter, its signed offset within -6..5
C1_FromValuesRoundTrip ==
    (res.op = "from_values" /\ res.args[1] \in 0..6 /\ res.args[2] \in 0..11) =>
        /\ res.out.t = "Note"
        /\ letter(res.out) = PyInt(res.args[1])
        /\ pitch(res.out) = PyInt(res.args[2])
        /\ IsUniformName(res.out.name)
        /\ AccCount(res.out) = MinAccidentals(res.args[1], res.args[2])
        /\ SignedAccidentals(res.out.name) \in -6..5

\* from_values(6, 0): pitch class 0 on the letter B, offset -11 wrapped to +1
C1_Witness ==
    /\ res.op = "from_values"
    /\ res.args = <<6, 0>>
    /\ res.out.t = "Note"
    /\ res.out.name = <<"B", "#">>

ValidEnharmonicArgs(args) ==
    /\ args[1] \in {PyNone, PyStr(<<"#">>), PyStr(<<"b">>)}
    /\ args[2].t = "bool"

\* C2: for every non-rest note, every prefer and both values of gross,
\* enharmonic returns a note whose pitch is the receiver's pitch
C2_EnharmonicKeepsPitch ==
    (res.op = "enharmonic" /\ ValidEnharmonicArgs(res.args) /\ ~is_rest(res.recv)) =>
        /\ res.out.t = "Note"
        /\ pitch(res.out) = pitch(res.recv)

\* C3: the pitch of a letter with a run of sharps or of flats of any length is
\* (natural pitch of the letter + signed accidental count) mod 12, in 0..11
C3_PitchIsModTwelve ==
    (res.op = "pitch" /\ IsUniformName(note.name)) =>
        /\ res.out.t = "int"
        /\ res.out.i \in 0..11
        /\ res.out.i = PitchClassOfName(note.name)

\* a name in which both "#" and "b" follow the first character
MixesAccidentals(raw) ==
    \E i, j \in 2..Len(raw) : raw[i] = "#" /\ raw[j] = "b"

\* C5: a name that mixes "#" and "b" is rejected and no Note is created
C5_MixedNameRejected ==
    (res.op = "Note" /\ res.args[1].t = "str" /\ MixesAccidentals(res.args[1].s)) =>
        /\ IsRaise(res.out)
        /\ note = PyNone
\* the accidental character prefer rules out
Opposite(p) == IF p = PyStr(<<"#">>) THEN "b" ELSE "#"

\* C13: with prefer "#" enharmonic returns a note without flats and with prefer
\* "b" a note without sharps, for every pitched receiver of at most twelve
\* accidentals and both values of gross; a receiver of one accidental that
\* already is of the preferred kind is returned itself
C13_PreferIsHonoured ==
    (/\ res.op = "enharmonic"
     /\ res.args[1] \in {PyStr(<<"#">>), PyStr(<<"b">>)}
     /\ res.args[2].t = "bool"
     /\ ~is_rest(res.recv)
     /\ AccCount(res.recv) <= 12) =>
        /\ res.out.t = "Note"
        /\ ~Contains(note_name(res.out), Opposite(res.args[1]))
        /\ (AccCount(res.recv) = 1 /\ res.recv.name[2] = res.args[1].s[1]) =>
               (res.same /\ res.out = res.recv)

\* C### asked for flats: the loop stops at D#, one more letter step gives Eb
C13_Witness ==
    /\ res.op = "enharmonic"
    /\ res.recv.name = <<"C", "#", "#", "#">>
    /\ res.args = <<PyStr(<<"b">>), PyBool(FALSE)>>
    /\ res.out.t = "Note"
    /\ res.out.name = <<"E", "b">>

\* the while loop of enharmonic run for the receiver self
LoopOf(self) ==
    enharmonic_loop(self, self, letter(self).i,
                    IF pitch(self).i \in NON_NATURAL THEN 2 ELSE 1, FALSE, 0)

\* C14: a note of two to twelve accidentals is rewritten with no accidental
\* when its pitch is a white key and exactly one when its pitch is one of
\* 1, 3, 6, 8, 10, and the loop ends within seven letter shifts
C14_ReducesWithinSevenShifts ==
    (/\ res.op = "enharmonic"
     /\ ValidEnharmonicArgs(res.args)
     /\ ~is_rest(res.recv)
     /\ AccCount(res.recv) \in 2..12) =>
        /\ res.out.t = "Note"
        /\ AccCount(res.out) = (IF pitch(res.recv).i \in {1, 3, 6, 8, 10} THEN 1 ELSE 0)
        /\ LoopOf(res.recv).note.t = "Note"
        /\ LoopOf(res.recv).steps <= 7

\* D with twelve flats (pitch 2): the loop walks all seven letters back to D
C14_Witness ==
    /\ res.op = "enharmonic"
    /\ res.recv.name = <<"D">> \o Repeat("b", 12)
    /\ res.out.t = "Note"
    /\ res.out.name = <<"D">>
    /\ LoopOf(res.recv).steps = 7

(***************************************************************************)
(* Properties of intervals                                                 *)
(***************************************************************************)
\* the semitones of a perfect or minor interval, by base
PerfectMinorValue(b) ==
    CASE b = UNI -> 0 [] b = SECOND -> 1 [] b = THIRD -> 3 [] b = FOURTH -> 5
      [] b = FIFTH -> 7 [] b = SIXTH -> 8 [] b = SEVENTH -> 10

\* the semitones of a major interval, by base
MajorValue(b) ==
    CASE b = SECOND -> 2 [] b = THIRD -> 4 [] b = SIXTH -> 9 [] b = SEVENTH -> 11

\* the numeral n of aug(n) / dim(n): 1 when absent, else the digits' value
Numeral(q) == IF Len(q) = 3 THEN 1 ELSE StrToInt(SubSeq(q, 4, Len(q)))

\* C4: difference is the perfect / minor table value + 12 * displace for per and
\* min, the major value + 12 * displace for maj, the major (2nd, 3rd, 6th, 7th)
\* or perfect (uni, 4th, 5th) value + n + 12 * displace for aug(n) and the
\* perfect / minor value - n + 12 * displace for dim(n), n >= 1 and 1 when no
\* numeral is written; maj 3rd = 4, per 5th = 7, dim 5th = 6, aug 4th = 6
C4_DifferenceTable ==
    res.op = "difference" =>
      LET q == ivl.quality
          b == ivl.base
          oct == 12 * ivl.displace
      IN /\ q \in {PER, MIN} => res.out = PyInt(PerfectMinorValue(b) + oct)
         /\ q = MAJ => res.out = PyInt(MajorValue(b) + oct)
         /\ (SubSeq(q, 1, 3) = AUG /\ Numeral(q) >= 1) =>
              res.out = PyInt((IF b \in {SECOND, THIRD, SIXTH, SEVENTH}
                               THEN MajorValue(b) ELSE PerfectMinorValue(b))
                              + Numeral(q) + oct)
         /\ (SubSeq(q, 1, 3) = DIM /\ Numeral(q) >= 1) =>
              res.out = PyInt(PerfectMinorValue(b) - Numeral(q) + oct)
         /\ (q = MAJ /\ b = THIRD /\ oct = 0) => res.out = PyInt(4)
         /\ (q = PER /\ b = FIFTH /\ oct = 0) => res.out = PyInt(7)
         /\ (q = DIM /\ b = FIFTH /\ oct = 0) => res.out = PyInt(6)
         /\ (q = AUG /\ b = FOURTH /\ oct = 0) => res.out = PyInt(6)

\* the difference of a doubly diminished 3rd an octave up has been read: 13
C4_Witness ==
    /\ res.op = "difference"
    /\ ivl.quality = DIM \o <<"2">>
    /\ ivl.base = THIRD
    /\ ivl.displace = 1
    /\ res.out = PyInt(13)

(***************************************************************************)
(* Properties of the tuning reference, hard pitch and frequency            *)
(***************************************************************************)
\* a positive number: a positive int or float
IsPositiveNumber(x) ==
    \/ x.t = "int" /\ x.i > 0
    \/ x.t = "float" /\ x.c = "fin" /\ x.f > 0
    \/ x.t = "float" /\ x.c = "inf"

\* C6: the reference is the argument of the latest set_A4 call that was
\* accepted, get_A4 returns it, frequency uses it, and it is always a positive
\* number
C6_ReferenceIsLatestPositive ==
    /\ IsPositiveNumber(A4)
    /\ (res.op = "set_A4" /\ ~IsRaise(res.out)) => A4 = res.args[1]
    /\ res.op = "get_A4" => res.out = A4
    /\ (res.op = "frequency" /\ res.out.t = "freq") => res.out.ref = A4

\* C7: the frequency of A in octave 4 + k is the reference raised by k octaves,
\* so A4 is the reference itself; with the reference 440, A4 = 440 and A5 = 880
C7_ReferenceIsA4 ==
    (res.op = "frequency" /\ note.name = <<"A">> /\ note.octave.t = "int") =>
        /\ res.out.t = "freq"
        /\ res.out.ref = A4
        /\ res.out.semis = 12 * (note.octave.i - 4)
        /\ (A4.t = "int" /\ note.octave.i >= 4) =>
               frequency_value(res.out) = A4.i * Pow2(note.octave.i - 4)
        /\ (A4 = PyInt(440) /\ note.octave.i = 4) => frequency_value(res.out) = 440
        /\ (A4 = PyInt(440) /\ note.octave.i = 5) => frequency_value(res.out) = 880

\* the frequency of A5 has been read under the reference 432
C7_Witness ==
    /\ res.op = "frequency"
    /\ note.t = "Note"
    /\ note.name = <<"A">>
    /\ note.octave = PyInt(5)
    /\ A4 = PyInt(432)
    /\ res.out.t = "freq"
    /\ frequency_value(res.out) = 864

\* a pitched note built without an octave is the client's note, and the call
\* made last read its hard pitch or its frequency
OctavelessQuery ==
    /\ res.op \in {"hard_pitch", "frequency"}
    /\ note.t = "Note"
    /\ ~is_rest(note)
    /\ note.octave = PyNone

IonianDegree(m) ==
    CASE m \in {"ionian", "major"} -> 0
      [] m = "dorian" -> 1
      [] m = "phrygian" -> 2
      [] m = "lydian" -> 3
      [] m = "mixolydian" -> 4
      [] m \in {"aeolian", "minor"} -> 5
      [] m = "locrian" -> 6

IonianNames ==
    {"ionian", "major", "dorian", "phrygian", "lydian", "mixolydian", "aeolian",
     "minor", "locrian"}

IonianSteps == <<2, 2, 1, 2, 2, 2, 1>>

NamesOf(notes) == [i \in 1..Len(notes) |-> notes[i].name]

\* C10: for a root with at most one accidental and each rotation of the
\* ionian pattern, spelling is 7 notes from the root on, the letters ascending
\* one by one cyclically and consecutive pitches apart by the rotated pattern;
\* C major is C D E F G A B and D dorian is D E F G A B C
C10_IonianRotations ==
    (/\ res.op = "spelling"
     /\ mode.mode \in IonianNames
     /\ ~is_rest(mode.root)
     /\ IsUniformName(mode.root.name)
     /\ AccCount(mode.root) <= 1) =>
        /\ res.out.t = "tuple"
        /\ Len(res.out.items) = 7
        /\ res.out.items[1] = mode.root
        /\ \A i \in 1..7 :
             /\ res.out.items[i].t = "Note"
             /\ IsUniformName(res.out.items[i].name)
             /\ LetterIndex(res.out.items[i].name[1])
                  = (LetterIndex(mode.root.name[1]) + i - 1) % 7
        /\ \A i \in 1..6 :
             (PitchClassOfName(res.out.items[i + 1].name)
                - PitchClassOfName(res.out.items[i].name)) % 12
               = IonianSteps[((IonianDegree(mode.mode) + i - 1) % 7) + 1]
        /\ (mode.root.name = <<"C">> /\ mode.mode = "major") =>
             NamesOf(res.out.items)
               = << <<"C">>, <<"D">>, <<"E">>, <<"F">>, <<"G">>, <<"A">>, <<"B">> >>
        /\ (mode.root.name = <<"D">> /\ mode.mode = "dorian") =>
             NamesOf(res.out.items)
               = << <<"D">>, <<"E">>, <<"F">>, <<"G">>, <<"A">>, <<"B">>, <<"C">> >>

\* the spelling of Bb lydian has been read: Bb C D E F G A
C10_Witness ==
    /\ res.op = "spelling"
    /\ mode.t = "Mode"
    /\ mode.mode = "lydian"
    /\ mode.root.name = <<"B", "b">>
    /\ res.out.t = "tuple"
    /\ NamesOf(res.out.items)
         = << <<"B", "b">>, <<"C">>, <<"D">>, <<"E">>, <<"F">>, <<"G">>, <<"A">> >>
(***************************************************************************)
(* Properties of assignment and operations on an existing object           *)
(***************************************************************************)
Entities == <<note, ivl, mode, chord>>

Operations == {"enharmonic", "add", "sub", "spelling"}

\* the fields an Interval is built from and what derives from them
IntervalFields == {"quality", "base", "displace", "difference", "letter_difference",
                   "name"}

ChordFields == {"root", "quality", "extensions", "dictionary", "notes"}

\* C9 as stated: once an object exists, no assignment and no operation
\* changes any of its fields
C9_Immutable ==
    [][/\ note # PyNone => note' = note
       /\ ivl # PyNone => ivl' = ivl
       /\ mode # PyNone => mode' = mode
       /\ chord # PyNone => chord' = chord]_vars

\* C9: enharmonic, Note + Interval, Note - Interval and spelling leave the
\* object as it was, and so does an assignment that raises; the fields of an
\* Interval and every public attribute of a Chord refuse assignment; an
\* assignment that goes through is one to a Note's octave, rhythm, dots or
\* triplet, to a Mode's root or mode, or one that shadows a class-level name
C9_OnlySettersMutate ==
    [][/\ res'.op \in Operations => Entities' = Entities
       /\ (res'.op = "setattr" /\ IsRaise(res'.out)) => Entities' = Entities
       /\ (res'.op = "setattr" /\ ivl # PyNone /\ res'.name \in IntervalFields) =>
             IsRaise(res'.out)
       /\ (res'.op = "setattr" /\ chord # PyNone) =>
             (IsRaise(res'.out) /\ chord' = chord)
       /\ (res'.op = "setattr" /\ Entities' # Entities) =>
             \/ note # PyNone /\ res'.name \in {"octave", "rhythm", "dots", "triplet"}
             \/ mode # PyNone /\ res'.name \in {"root", "mode"}
             \/ res'.name \in ClassNames(Subject.t)]_vars

\* an existing note's octave has been assigned 5 and the note now has it
C9_Witness ==
    /\ res.op = "setattr"
    /\ res.name = "octave"
    /\ res.value = PyInt(5)
    /\ res.out = PyNone
    /\ note.t = "Note"
    /\ note.octave = PyInt(5)
(***************************************************************************)
(* Properties of hard pitches and of Note + Interval, Note - Interval      *)
(***************************************************************************)
WhiteKeys == {0, 2, 4, 5, 7, 9, 11}

\* the letter character whose natural pitch is p, a white key
LetterOfPitch(p) == PITCH_VALUES[CHOOSE i \in 1..7 : PITCH_VALUES[i][2] = p][1]

\* the spelling of pitch class pc: the natural, or the lower natural sharped,
\* or with prefer_flat the next natural flatted
NearestSpelling(pc, prefer_flat) ==
    IF pc \in WhiteKeys THEN <<LetterOfPitch(pc)>>
    ELSE IF prefer_flat THEN <<LetterOfPitch(pc + 1), "b">>
    ELSE <<LetterOfPitch(pc - 1), "#">>

\* C16: for every integer h and both values of prefer_flat, from_hard_pitch
\* returns a note of octave h div 12 whose hard pitch is h, a natural when
\* h mod 12 is a white key, otherwise the lower natural sharped or, with
\* prefer_flat, the next natural flatted
C16_FromHardPitchRoundTrip ==
    (/\ res.op = "from_hard_pitch"
     /\ res.args[1].t = "int"
     /\ res.args[2].t = "bool") =>
        /\ res.out.t = "Note"
        /\ octave(res.out) = PyInt(FloorDiv12(res.args[1].i))
        /\ hard_pitch(res.out) = res.args[1]
        /\ res.out.name = NearestSpelling(Mod12(res.args[1].i), res.args[2].b)

\* the receiver of an add or sub is pitched and carries an octave other than 0
NonzeroOctaveMove ==
    /\ res.op \in {"add", "sub"}
    /\ ~is_rest(res.recv)
    /\ octave(res.recv).t = "int"
    /\ octave(res.recv).i # 0

SignOf(op) == IF op = "add" THEN 1 ELSE -1

\* C17: for a note with a nonzero octave and every interval, note + interval
\* has hard pitch hard_pitch(note) + difference(interval) and note - interval
\* has hard pitch hard_pitch(note) - difference(interval)
C17_MoveKeepsHardPitch ==
    NonzeroOctaveMove =>
        /\ res.out.t = "Note"
        /\ hard_pitch(res.out) =
             PyInt(hard_pitch(res.recv).i + SignOf(res.op) * difference(res.interval).i)

\* C in octave 1 plus a minor 2nd: hard pitch 13 is first spelled C#, then
\* respelled Db, still of hard pitch 13
C17_Witness ==
    /\ res.op = "add"
    /\ res.recv.name = <<"C">>
    /\ res.recv.octave = PyInt(1)
    /\ res.interval.quality = MIN /\ res.interval.base = SECOND
    /\ res.interval.displace = 0
    /\ res.out.t = "Note"
    /\ res.out.name = <<"D", "b">>
    /\ hard_pitch(res.out) = PyInt(13)

\* C18: for a note with a nonzero octave and every interval, the letter of
\* note + interval is (letter + letter_difference) mod 7 and the letter of
\* note - interval is (letter - letter_difference) mod 7
C18_MoveLandsOnTargetLetter ==
    NonzeroOctaveMove =>
        /\ res.out.t = "Note"
        /\ letter(res.out) =
             PyInt((letter(res.recv).i
                      + SignOf(res.op) * letter_difference(res.interval)) % 7)

\* C19: for an octave-less note and every major, minor or perfect interval of
\* any displace, note + interval and note - interval return the note on letter
\* (letter +/- letter_difference) mod 7 with pitch (pitch +/- difference) mod 12
C19_OctavelessMove ==
    (/\ res.op \in {"add", "sub"}
     /\ ~is_rest(res.recv)
     /\ octave(res.recv) = PyNone
     /\ res.interval.quality \in {MAJ, MIN, PER}) =>
        /\ res.out.t = "Note"
        /\ letter(res.out) =
             PyInt((letter(res.recv).i
                      + SignOf(res.op) * letter_difference(res.interval)) % 7)
        /\ pitch(res.out) =
             PyInt((pitch(res.recv).i
                      + SignOf(res.op) * difference(res.interval).i) % 12)

\* both notes given to from_notes are pitched and were given an integer octave
BothHaveOctaves(args) ==
    \A k \in 1..2 : ~is_rest(args[k]) /\ args[k].octave.t = "int"

\* C20: octave 0 is a present octave: note + interval and note - interval of a
\* note in octave 0 carry an octave and the hard pitch hard_pitch(note) +/-
\* difference, and strict from_notes accepts a note in octave 0
C20_OctaveZeroIsPresent ==
    /\ (/\ res.op \in {"add", "sub"}
        /\ ~is_rest(res.recv)
        /\ octave(res.recv) = PyInt(0)) =>
           /\ res.out.t = "Note"
           /\ octave(res.out).t = "int"
           /\ hard_pitch(res.out) =
                PyInt(hard_pitch(res.recv).i
                        + SignOf(res.op) * difference(res.interval).i)
    /\ (/\ res.op = "from_notes"
        /\ res.args[3] = PyNone
        /\ BothHaveOctaves(res.args)) => res.out.t = "Interval"
(***************************************************************************)
(* Properties of chords                                                    *)
(***************************************************************************)
HasAny(extensions, S) == \E i \in 1..Len(extensions) : extensions[i] \in S

\* c.notes holds the note the interval (q, b) above the root: the note
\* root + Interval(q, b), of pitch (root pitch + semitones) mod 12
HoldsTone(c, q, b, semitones) ==
    \E i \in 1..Len(c.notes) :
        /\ c.notes[i].name = add(c.root, NewInterval(q, b)).name
        /\ pitch(c.notes[i]).i = (pitch(c.root).i + semitones) % 12

\* the third (the fourth of a sus chord) and the fifth of the quality, the
\* fifth unless the extensions alter it
HoldsTriad(c) ==
    /\ c.quality \in {"maj", "aug"} => HoldsTone(c, MAJ, THIRD, 4)
    /\ c.quality \in {"min", "dim"} => HoldsTone(c, MIN, THIRD, 3)
    /\ c.quality = "sus" => HoldsTone(c, PER, FOURTH, 5)
    /\ ~HasAny(c.extensions, {"b5", "#5"}) =>
         CASE c.quality = "aug" -> HoldsTone(c, AUG, FIFTH, 8)
           [] c.quality = "dim" -> HoldsTone(c, DIM, FIFTH, 6)
           [] OTHER -> HoldsTone(c, PER, FIFTH, 7)

\* the 7th a chord is given when none is named: a minor 7th, or for the
\* quality "dim" the diminished 7th, entered as a major 6th
HoldsImpliedSeventh(c) ==
    IF c.quality = "dim" THEN HoldsTone(c, MAJ, SIXTH, 9)
    ELSE HoldsTone(c, MIN, SEVENTH, 10)

\* C15: a chord with "13" or "b13" and no 9th or 7th extension holds its triad
\* tones, the major 2nd above the root and the implied 7th; a chord with "9",
\* "#9" or "b9" and no 7th extension holds the implied 7th
C15_ImpliedTones ==
    chord.t = "Chord" =>
        LET has13 == HasAny(chord.extensions, {"13", "b13"})
            has9 == HasAny(chord.extensions, {"9", "#9", "b9"})
            has7 == HasAny(chord.extensions, {"7", "maj7", "dim7"})
        IN /\ (has13 /\ ~has9 /\ ~has7) =>
                 /\ HoldsTriad(chord)
                 /\ HoldsTone(chord, MAJ, SECOND, 2)
                 /\ HoldsImpliedSeventh(chord)
           /\ (has9 /\ ~has7) => HoldsImpliedSeventh(chord)

\* C dim with "13": the 9th D and the 7th A are added to C, Eb, Gb, and the
\* 13th, another A, is dropped as a repeat
C15_Witness ==
    /\ chord.t = "Chord"
    /\ chord.root.name = <<"C">>
    /\ chord.quality = "dim"
    /\ chord.extensions = <<"13">>
    /\ [i \in 1..Len(chord.notes) |-> chord.notes[i].name]
         = <<<<"C">>, <<"D">>, <<"E", "b">>, <<"G", "b">>, <<"A">>>>

(***************************************************************************)
(* Properties of the chord classifier of musictools_old.py                 *)
(***************************************************************************)
\* the semitones above the root, unison left out, of the notes of a chord
\* whose names are all notes
IntervalsAboveRoot(c) ==
    { (PitchClassOfName(Capitalize(c.notes[i]))
         - PitchClassOfName(Capitalize(c.root))) % 12 : i \in 1..Len(c.notes) } \ {0}

\* every name of the chord is a letter with sharps only or flats only
AllNotes(c) == \A i \in 1..Len(c.notes) : IsUniformName(Capitalize(c.notes[i]))

\* the symbol of `chord` has been asked for
SymbolAsked == res.op = "symbol" /\ chord.t = "OldChord" /\ AllNotes(chord)

\* C11: a chord whose notes above the root are a major 3rd, a perfect 5th and a
\* seventh, with a major 2nd or without, has the symbol root + "7" for a minor
\* 7th, root + "maj7" for a major 7th, and "9" in place of "7" with the 2nd
C11_SeventhSymbols ==
    SymbolAsked =>
      LET iv == IntervalsAboveRoot(chord) IN
      /\ iv = {4, 7, 10} => res.out = PyStr(chord.root \o <<"7">>)
      /\ iv = {4, 7, 11} => res.out = PyStr(chord.root \o <<"m", "a", "j", "7">>)
      /\ iv = {2, 4, 7, 10} => res.out = PyStr(chord.root \o <<"9">>)
      /\ iv = {2, 4, 7, 11} => res.out = PyStr(chord.root \o <<"m", "a", "j", "9">>)

\* C with B, G, E, D renders "Cmaj9"
C11_Witness ==
    /\ res.op = "symbol"
    /\ chord.t = "OldChord"
    /\ chord.notes = << <<"C">>, <<"B">>, <<"G">>, <<"E">>, <<"D">> >>
    /\ res.out = PyStr(<<"C", "m", "a", "j", "9">>)

\* C12: a chord of a root, the perfect 4th and the perfect 5th above it has
\* the symbol root + "sus"
C12_SusSymbol ==
    (SymbolAsked /\ IntervalsAboveRoot(chord) = {5, 7})
      => res.out = PyStr(chord.root \o <<"s", "u", "s">>)

(***************************************************************************)
(* Properties of Interval.from_notes                                       *)
(***************************************************************************)
\* the twelve simple intervals by their semitones: <<quality, base>>
CanonicalSimple ==
    << <<PER, UNI>>, <<MIN, SECOND>>, <<MAJ, SECOND>>, <<MIN, THIRD>>, <<MAJ, THIRD>>,
       <<PER, FOURTH>>, <<AUG, FOURTH>>, <<PER, FIFTH>>, <<MIN, SIXTH>>, <<MAJ, SIXTH>>,
       <<MIN, SEVENTH>>, <<MAJ, SEVENTH>> >>

\* from_notes was called in simple mode on two pitched notes
SimpleCall ==
    /\ res.op = "from_notes"
    /\ res.args[3] \in {PyStr(<<"a">>), PyStr(<<"d">>)}
    /\ ~is_rest(res.args[1]) /\ ~is_rest(res.args[2])

\* the semitones from the first to the second note of a simple call, the notes
\* exchanged for "d"
SimpleSemitones ==
    LET up == res.args[3] = PyStr(<<"a">>)
        from == IF up THEN res.args[1] ELSE res.args[2]
        to == IF up THEN res.args[2] ELSE res.args[1]
    IN (pitch(to).i - pitch(from).i) % 12

\* C21: from_notes(a, b, 'a') of two pitched notes is the canonical simple
\* interval of (b.pitch - a.pitch) mod 12 semitones, not displaced, and
\* from_notes(a, b, 'd') is that of (a.pitch - b.pitch) mod 12
C21_SimpleFromNotes ==
    SimpleCall =>
        /\ res.out.t = "Interval"
        /\ <<res.out.quality, res.out.base>> = CanonicalSimple[SimpleSemitones + 1]
        /\ res.out.displace = 0
        /\ difference(res.out) = PyInt(SimpleSemitones)

\* from_notes was called without simple on two pitched notes whose octaves
\* are integers other than 0
StrictCall ==
    /\ res.op = "from_notes"
    /\ res.args[3] = PyNone
    /\ \A k \in 1..2 : /\ ~is_rest(res.args[k])
                       /\ octave(res.args[k]).t = "int"
                       /\ octave(res.args[k]).i # 0

\* |a - b|
Distance(a, b) == IF a >= b THEN a - b ELSE b - a

\* the number a quality stands for: 1 when it carries no digits
QualityTimes(q) == IF Len(q) = 3 THEN 1 ELSE StrToInt(SubSeq(q, 4, Len(q)))

\* the quality of pd semitones on a base: per, min or maj on an expected
\* value, aug by the distance above the largest, dim by that below the least
QualityFits(q, b, pd) ==
    LET expect == BASE_INTERVALS(b)
        least == expect[1]
        largest == expect[Len(expect)]
    IN IF pd = least /\ Len(expect) = 1 THEN q = PER
       ELSE IF pd = least THEN q = MIN
       ELSE IF pd = largest THEN q = MAJ
       ELSE IF pd > largest
       THEN SubSeq(q, 1, 3) = AUG /\ QualityTimes(q) = pd - largest
       ELSE SubSeq(q, 1, 3) = DIM /\ QualityTimes(q) = least - pd

\* C22: strict from_notes of two notes with nonzero octaves returns an
\* interval whose base is the letter of the higher note less that of the
\* lower mod 7 (either note being the higher when the hard pitches are equal),
\* whose displace is the hard-pitch distance div 12, whose difference is the
\* hard-pitch distance, and whose quality fits the distance mod 12
C22_StrictFromNotes ==
    StrictCall =>
      LET a == res.args[1]
          b == res.args[2]
          d == Distance(hard_pitch(a).i, hard_pitch(b).i)
      IN /\ res.out.t = "Interval"
         /\ \E p \in {<<a, b>>, <<b, a>>} :
              /\ hard_pitch(p[1]).i >= hard_pitch(p[2]).i
              /\ res.out.base = BASES[((letter(p[1]).i - letter(p[2]).i) % 7) + 1]
         /\ res.out.displace = d \div 12
         /\ difference(res.out) = PyInt(d)
         /\ QualityFits(res.out.quality, res.out.base, d % 12)

\* from_notes(E1, B#-1): 28 semitones from B# up to E, a diminished 4th
\* displaced by two octaves
C22_Witness ==
    /\ StrictCall
    /\ res.args[1].name = <<"E">> /\ octave(res.args[1]) = PyInt(1)
    /\ res.args[2].name = <<"B", "#">> /\ octave(res.args[2]) = PyInt(-1)
    /\ res.out.t = "Interval"
    /\ res.out.quality = DIM /\ res.out.base = FOURTH /\ res.out.displace = 2
    /\ difference(res.out) = PyInt(28)

\* C29: strict from_notes of two notes with nonzero octaves gives the same
\* quality, base and displace with its arguments exchanged
C29_FromNotesSymmetric ==
    StrictCall =>
      LET rev == from_notes(res.args[2], res.args[1], PyNone) IN
      /\ res.out.t = "Interval"
      /\ rev.t = "Interval"
      /\ <<res.out.quality, res.out.base, res.out.displace>>
           = <<rev.quality, rev.base, rev.displace>>

(***************************************************************************)
(* Properties of the spelling of every mode                                *)
(***************************************************************************)
\* the base pattern a mode name stands for and the step its walk starts at
ParentPattern(m) ==
    IF MODES(m).t = "tuple" THEN MODES(m).items ELSE MODES(MODES(m).parent).items

RotationOffset(m) == IF MODES(m).t = "tuple" THEN 0 ELSE MODES(m).last - 1

\* the sum of the k steps of pat read cyclically from the 0-based index off
RECURSIVE StepSum(_, _, _)
StepSum(pat, off, k) ==
    IF k = 0 THEN 0
    ELSE StepSum(pat, off, k - 1) + pat[((off + k - 1) % Len(pat)) + 1]

\* the spelling of a mode on a pitched root of at most one accidental was read
SpellingRead ==
    /\ res.op = "spelling"
    /\ mode.t = "Mode"
    /\ ~is_rest(mode.root)
    /\ IsUniformName(mode.root.name)
    /\ AccCount(mode.root) <= 1

\* C23: for every mode name and every root with at most one accidental,
\* spelling returns as many notes as the parent pattern has steps, the first
\* the root, the note after k steps of pitch class root + the sum of the k
\* steps read cyclically from the mode's offset
C23_SpellingFollowsPattern ==
    SpellingRead =>
      LET pat == ParentPattern(mode.mode)
          off == RotationOffset(mode.mode)
      IN /\ res.out.t = "tuple"
         /\ Len(res.out.items) = Len(pat)
         /\ res.out.items[1] = mode.root
         /\ \A k \in 1..(Len(pat) - 1) :
              /\ res.out.items[k + 1].t = "Note"
              /\ IsUniformName(res.out.items[k + 1].name)
              /\ PitchClassOfName(res.out.items[k + 1].name)
                   = (PitchClassOfName(mode.root.name) + StepSum(pat, off, k)) % 12

\* F# minor blues, the major blues pattern read from its sixth step:
\* F# A B B# C# E
C23_Witness ==
    /\ SpellingRead
    /\ mode.mode = "minor blues"
    /\ mode.root.name = <<"F", "#">>
    /\ res.out.t = "tuple"
    /\ NamesOf(res.out.items)
         = << <<"F", "#">>, <<"A">>, <<"B">>, <<"B", "#">>, <<"C", "#">>, <<"E">> >>

\* C24: the base pattern of every mode sums to 12 semitones, and the spelling
\* of harmonic minor has 7 notes, of chromatic 12, of whole tone 6
C24_PatternsSumToTwelve ==
    SpellingRead =>
      /\ StepSum(ParentPattern(mode.mode), 0, Len(ParentPattern(mode.mode))) = 12
      /\ res.out.t = "tuple"
      /\ mode.mode = "harmonic minor" => Len(res.out.items) = 7
      /\ mode.mode = "chromatic" => Len(res.out.items) = 12
      /\ mode.mode = "whole tone" => Len(res.out.items) = 6

\* the modes whose pattern family has no letter-step pattern
PlainModes == {m \in ModeNames : parent_name(m) \notin LetterSpellingNames}

\* C25: the spelling of a mode without letter steps, on a root with at most
\* one accidental, never holds both a sharped and a flatted note, and no note
\* after the root has two accidentals or is B#, Cb, E# or Fb
C25_PlainSpellingConsistent ==
    (SpellingRead /\ mode.mode \in PlainModes) =>
      /\ res.out.t = "tuple"
      /\ ~(/\ \E i \in 1..Len(res.out.items) : Contains(res.out.items[i].name, "#")
           /\ \E i \in 1..Len(res.out.items) : Contains(res.out.items[i].name, "b"))
      /\ \A i \in 2..Len(res.out.items) :
           /\ Len(res.out.items[i].name) <= 2
           /\ res.out.items[i].name \notin
                {<<"B", "#">>, <<"C", "b">>, <<"E", "#">>, <<"F", "b">>}

\* F# half-whole diminished: the fourth note, spelled Bb on its letter, is
\* respelled A# after the sharp of the root: F# G A A# C C# D# E
C25_Witness ==
    /\ SpellingRead
    /\ mode.mode = "half-whole diminished"
    /\ mode.root.name = <<"F", "#">>
    /\ res.out.t = "tuple"
    /\ NamesOf(res.out.items)
         = << <<"F", "#">>, <<"G">>, <<"A">>, <<"A", "#">>, <<"C">>, <<"C", "#">>,
              <<"D", "#">>, <<"E">> >>

(***************************************************************************)
(* Properties of the notes of a chord                                      *)
(***************************************************************************)
\* C26: for every root, quality and tuple of extensions, no two notes of
\* Chord.notes have the same pitch
C26_NoRepeatedPitch ==
    (res.op = "notes" /\ chord.t = "Chord") =>
      \A i \in 1..Len(chord.notes) : \A j \in (i + 1)..Len(chord.notes) :
        pitch(chord.notes[i]) # pitch(chord.notes[j])

(***************************************************************************)
(* Properties of inversions and augmented triads in the chord classifier   *)
(***************************************************************************)
\* the notes above the root show an inversion: a 3rd and a 6th without
\* perfect 5th and tritone, or no 3rd with a perfect 4th and a 6th, or no 3rd
\* with a 2nd, a 4th or tritone, and a 6th
InversionPattern(iv) ==
    LET has2 == iv \cap {1, 2} # {}
        has3 == iv \cap {3, 4} # {}
        has6 == iv \cap {8, 9} # {}
    IN \/ has3 /\ has6 /\ 6 \notin iv /\ 7 \notin iv
       \/ ~has3 /\ ~(5 \in iv /\ 7 \in iv) /\ 5 \in iv /\ has6
       \/ ~has3 /\ ~(5 \in iv /\ 7 \in iv) /\ has2 /\ (5 \in iv \/ 6 \in iv) /\ has6

\* the description of `chord` has been asked for
DescriptionAsked == res.op = "description" /\ chord.t = "OldChord" /\ AllNotes(chord)

\* C27: a chord showing an inversion pattern is described, without error, as
\* the chord on one of its other notes with the given root as bass; C with E
\* and A is the minor triad on A over C
C27_InversionIsReclassified ==
    (DescriptionAsked /\ InversionPattern(IntervalsAboveRoot(chord))) =>
      /\ res.out.t = "dict"
      /\ res.out.true_root # chord.root
      /\ InTuple(res.out.true_root, chord.notes)
      /\ Len(res.out.extensions) >= 1 + Len(chord.root)
      /\ SubSeq(res.out.extensions,
                Len(res.out.extensions) - Len(chord.root),
                Len(res.out.extensions)) = <<"/">> \o chord.root
      /\ (chord.notes = << <<"C">>, <<"E">>, <<"A">> >>) =>
            /\ res.out.true_root = <<"A">>
            /\ res.out.triad = "minor"

\* C28: a chord whose notes above the root are a major 3rd and a minor 6th is
\* classified as an augmented triad and has the symbol root + "+"
C28_AugmentedTriad ==
    /\ (DescriptionAsked /\ IntervalsAboveRoot(chord) = {4, 8}) =>
          /\ res.out.t = "dict"
          /\ res.out.triad = "augmented"
    /\ (SymbolAsked /\ IntervalsAboveRoot(chord) = {4, 8}) =>
          res.out = PyStr(chord.root \o <<"+">>)

(***************************************************************************)
(* Properties of adding and subtracting the same interval                  *)
(***************************************************************************)
\* C30: for an octave-less note with at most two accidentals and a major,
\* minor or perfect interval that is not displaced, (note + interval) -
\* interval and (note - interval) + interval have the name of the note
C30_AddSubRoundTrip ==
    (/\ res.op = "add_sub"
     /\ ~is_rest(res.recv)
     /\ octave(res.recv) = PyNone
     /\ IsUniformName(res.recv.name)
     /\ AccCount(res.recv) <= 2
     /\ res.interval.quality \in {MAJ, MIN, PER}
     /\ res.interval.displace = 0) =>
        /\ res.up_down.t = "Note"
        /\ res.up_down.name = res.recv.name
        /\ res.down_up.t = "Note"
        /\ res.down_up.name = res.recv.name

\* Cbb up and down a major 7th: Cbb + maj 7th is Bbb, and Bbb - maj 7th is Cbb
C30_Witness ==
    /\ res.op = "add_sub"
    /\ res.recv.name = <<"C", "b", "b">>
    /\ octave(res.recv) = PyNone
    /\ res.interval.quality = MAJ /\ res.interval.base = SEVENTH
    /\ res.interval.displace = 0
    /\ res.up_down.t = "Note"
    /\ res.up_down.name = <<"C", "b", "b">>
    /\ add(res.recv, res.interval).name = <<"B", "b", "b">>

=============================================================================
